---- MODULE Spec2Model ----
(***************************************************************************)
(* A model of the type-checking core of erg: the module cache              *)
(* (crates/erg_compiler/module/cache.rs) shared by several sessions, and   *)
(* the transactional substitution engine and projection resolver           *)
(* (crates/erg_compiler/context/eval.rs).                                  *)
(***************************************************************************)
EXTENDS Integers, Sequences, FiniteSets, TLC

(***************************************************************************)
(* Bounds of the model.                                                    *)
(***************************************************************************)
\* register is not called once last_id has reached MaxId
MaxId == 3

\* the sessions (threads) that share one SharedModuleCache
Sessions == {1, 2}

(***************************************************************************)
(* Option<T>: None is the empty sequence, Some(x) the sequence <<x>>.      *)
(***************************************************************************)
None == <<>>
Some(x) == <<x>>
IsSome(o) == o # <<>>
Unwrap(o) == o[1]

(***************************************************************************)
(* Paths.  The keys of the cache are normalized paths; callers pass raw    *)
(* paths, which register and rename_path (its new path) normalize and      *)
(* which the lookups, remove and rename_path (its old path) use as given.  *)
(***************************************************************************)
BUILTINS == "<builtins>"
NormalizedPaths == {BUILTINS, "a"}
RawPaths == NormalizedPaths \cup {"./a"}
\* NormalizedPathBuf::from: "./a" and "a" name the same file
Normalize(p) == IF p = "./a" THEN "a" ELSE p

\* what a caller registers: a compiled unit and a context (the cache never
\* looks into either); initialize registers the builtins context with no unit
Modules == {[hir |-> "Some", ctx |-> "ctx1"]}

VARIABLES
    cache,      \* ModuleCache.cache: normalized path -> ModuleEntry
    last_id,    \* ModuleCache.last_id
    arcs,       \* the Arc<ModuleContext> allocations made so far
    pc,         \* where each session stands in the call it runs
    local,      \* the locals of the call each session runs
    handle,     \* the Arc<ModuleContext> each session holds from get_ctx
    ret         \* the call that returned last and the entry it returned

cacheVars == <<cache, last_id, arcs, pc, local, handle, ret>>

VARIABLES
    fv,         \* the free variables of the type graph: name -> FreeKind
    epc,        \* where the run of the evaluator stands
    ein,        \* the arguments the evaluator is run with
    eres        \* what the evaluator's calls returned

evalVars == <<fv, epc, ein, eres>>

VARIABLES
    live,           \* the live Context of the checker (`self` of grow and pop)
    builtins_entry, \* what the module cache of the contexts holds at "<builtins>"
    sret            \* the Context call that returned last and what it returned

scopeVars == <<live, builtins_entry, sret>>

vars == <<cacheVars, evalVars, scopeVars>>

(***************************************************************************)
(* ModId and ModuleEntry.                                                  *)
(***************************************************************************)
ModIdNew(id) == id
ModIdBuiltin == 0
ModIdMain == 1

\* ModuleEntry::new; `module` is the Arc cell that Arc::new(ctx) allocated
ModuleEntryNew(id, hir, cell) == [id |-> id, hir |-> hir, module |-> cell]

\* no call in flight
NoLocal == [builtin |-> None]
NoRet == [op |-> "none", out |-> None]

(***************************************************************************)
(* Arc<ModuleContext>.  A cell is alive while its strong count is positive *)
(* and until Arc::try_unwrap moves its content out.                        *)
(***************************************************************************)
StrongCountIn(cell, cacheX, handleX, localX) ==
    Cardinality({p \in DOMAIN cacheX : cacheX[p].module = cell})
    + Cardinality({s \in Sessions : IsSome(handleX[s]) /\ Unwrap(handleX[s]).strong
                                     /\ Unwrap(handleX[s]).cell = cell})
    + Cardinality({s \in Sessions : IsSome(localX[s].builtin)
                                     /\ Unwrap(localX[s].builtin).module = cell})

StrongCount(cell) == StrongCountIn(cell, cache, handle, local)

\* Drop for Arc: a cell nobody owns any more is freed
Sweep(arcsX, cacheX, handleX, localX) ==
    [i \in DOMAIN arcsX |->
        [arcsX[i] EXCEPT !.alive = @ /\ StrongCountIn(i, cacheX, handleX, localX) > 0]]

(***************************************************************************)
(* ModuleCache: the operations on the unshared cache, as functions of the  *)
(* cache record mc = [cache, last_id] (and of the Arc allocations).        *)
(***************************************************************************)
EmptyDict == [x \in {} |-> None]
Insert(d, k, v) == [x \in DOMAIN d \cup {k} |-> IF x = k THEN v ELSE d[x]]
Delete(d, k) == [x \in DOMAIN d \ {k} |-> d[x]]

\* ModuleCache::get
get(mc, path) == IF path \in DOMAIN mc.cache THEN Some(mc.cache[path]) ELSE None

\* register whose write of last_id is lost
register_lost_update(mc, arcsX, path, hir, ctx) ==
    [cache |-> Insert(mc.cache, path,
                      ModuleEntryNew(ModIdNew(mc.last_id + 1), hir, Len(arcsX) + 1)),
     last_id |-> mc.last_id,
     arcs |-> Append(arcsX, [ctx |-> ctx, alive |-> TRUE])]

\* ModuleCache::register
register(mc, arcsX, path, hir, ctx) ==
    LET lid == mc.last_id + 1
        id == ModIdNew(lid)
        cell == Len(arcsX) + 1
        entry == ModuleEntryNew(id, hir, cell)
    IN  [cache |-> Insert(mc.cache, path, entry),
         last_id |-> lid,
         arcs |-> Append(arcsX, [ctx |-> ctx, alive |-> TRUE])]

\* ModuleCache::remove
remove(mc, path) ==
    [cache |-> Delete(mc.cache, path), last_id |-> mc.last_id, out |-> get(mc, path)]

\* remove_by_id with `get` in the place of `remove`
remove_by_id_peek(mc, found) ==
    [cache |-> mc.cache, last_id |-> mc.last_id,
     out |-> IF IsSome(found) THEN get(mc, Unwrap(found)) ELSE None]

\* the names find_map may yield in ModuleCache::remove_by_id
find_by_id(mc, id) == {name \in DOMAIN mc.cache : mc.cache[name].id = id}

\* ModuleCache::remove_by_id, for the name that find_map yielded (if any)
remove_by_id(mc, found) ==
    IF IsSome(found) THEN remove(mc, Unwrap(found))
    ELSE [cache |-> mc.cache, last_id |-> mc.last_id, out |-> None]

\* rename_path that inserts at new without removing old
rename_path_copy(mc, old, new) ==
    IF IsSome(get(mc, old))
    THEN [cache |-> Insert(mc.cache, new, Unwrap(get(mc, old))), last_id |-> mc.last_id]
    ELSE [cache |-> mc.cache, last_id |-> mc.last_id]

\* ModuleCache::rename_path
rename_path(mc, old, new) ==
    LET removed == remove(mc, old)
    IN  IF IsSome(removed.out)
        THEN [cache |-> Insert(removed.cache, new, Unwrap(removed.out)),
              last_id |-> mc.last_id]
        ELSE [cache |-> mc.cache, last_id |-> mc.last_id]

\* clear that also resets the id counter
clear_resets_last_id(mc) == [cache |-> EmptyDict, last_id |-> 0]

\* ModuleCache::clear
clear(mc) == [cache |-> EmptyDict, last_id |-> mc.last_id]

\* get_ctx that hands out the entry's context without cloning the Arc
get_ctx_borrowed(mc, arcsX, path) ==
    LET e == get(mc, path)
    IN  IF IsSome(e)
        THEN Some([cell |-> Unwrap(e).module, ctx |-> arcsX[Unwrap(e).module].ctx,
                   strong |-> FALSE])
        ELSE None

\* SharedModuleCache::get_ctx: the clone of the entry's Arc
get_ctx(mc, arcsX, path) ==
    LET e == get(mc, path)
    IN  IF IsSome(e)
        THEN Some([cell |-> Unwrap(e).module, ctx |-> arcsX[Unwrap(e).module].ctx,
                   strong |-> TRUE])
        ELSE None

(***************************************************************************)
(* Shared<ModuleCache>: a readers-writer lock.  Every call below takes the *)
(* guard (borrow() or borrow_mut()) as a temporary of one statement and    *)
(* drops it at the end of that statement, so each statement that touches   *)
(* the cache is one step, and the lock is free between the steps.          *)
(***************************************************************************)
MC == [cache |-> cache, last_id |-> last_id]
Idle(s) == pc[s] = "idle"
\* the sessions that are inside initialize()
Initializing == {s \in Sessions : pc[s] \in {"init_removed", "init_cleared"}}

Returned(op, out) == [op |-> op, out |-> out]

(***************************************************************************)
(* SharedModuleCache: one action per call, or per lock acquisition of a    *)
(* call that takes the lock more than once.                                *)
(***************************************************************************)
\* SharedModuleCache::register
SharedRegister(s, path, hir, ctx) ==
    /\ Idle(s)
    /\ last_id < MaxId
    /\ LET r == register(MC, arcs, Normalize(path), hir, ctx)
       IN  /\ cache' = r.cache
           /\ last_id' = r.last_id
           /\ arcs' = Sweep(r.arcs, r.cache, handle, local)
           /\ ret' = Returned("register", None)
    /\ UNCHANGED <<pc, local, handle>>
    /\ UNCHANGED <<evalVars, scopeVars>>

\* SharedModuleCache::remove
SharedRemove(s, path) ==
    /\ Idle(s)
    /\ LET r == remove(MC, path)
       IN  /\ cache' = r.cache
           /\ last_id' = r.last_id
           /\ arcs' = Sweep(arcs, r.cache, handle, local)
           /\ ret' = Returned("remove", r.out)
    /\ UNCHANGED <<pc, local, handle>>
    /\ UNCHANGED <<evalVars, scopeVars>>

\* SharedModuleCache::remove_by_id
SharedRemoveById(s, id) ==
    /\ Idle(s)
    /\ \E found \in (IF find_by_id(MC, id) = {} THEN {None}
                     ELSE {Some(name) : name \in find_by_id(MC, id)}) :
         LET r == remove_by_id(MC, found)
         IN  /\ cache' = r.cache
             /\ last_id' = r.last_id
             /\ arcs' = Sweep(arcs, r.cache, handle, local)
             /\ ret' = Returned("remove_by_id", r.out)
    /\ UNCHANGED <<pc, local, handle>>
    /\ UNCHANGED <<evalVars, scopeVars>>

\* SharedModuleCache::rename_path
SharedRenamePath(s, old, new) ==
    /\ Idle(s)
    /\ LET r == rename_path(MC, old, Normalize(new))
       IN  /\ cache' = r.cache
           /\ last_id' = r.last_id
           /\ arcs' = Sweep(arcs, r.cache, handle, local)
           /\ ret' = Returned("rename_path", None)
    /\ UNCHANGED <<pc, local, handle>>
    /\ UNCHANGED <<evalVars, scopeVars>>

\* SharedModuleCache::get_ctx; the Arc a session held before is dropped
SharedGetCtx(s, path) ==
    /\ Idle(s)
    /\ LET h == get_ctx(MC, arcs, path)
       IN  /\ handle' = [handle EXCEPT ![s] = h]
           /\ arcs' = Sweep(arcs, cache, handle', local)
           /\ ret' = Returned("get_ctx", None)
    /\ UNCHANGED <<cache, last_id, pc, local>>
    /\ UNCHANGED <<evalVars, scopeVars>>

\* the session drops the Arc it holds
DropCtx(s) ==
    /\ IsSome(handle[s])
    /\ handle' = [handle EXCEPT ![s] = None]
    /\ arcs' = Sweep(arcs, cache, handle', local)
    /\ UNCHANGED <<cache, last_id, pc, local, ret>>
    /\ UNCHANGED <<evalVars, scopeVars>>

\* SharedModuleCache::initialize, `self.remove(&builtin_path)` and the return
\* of the let-else when there is no builtins entry
InitializeRemove(s) ==
    /\ Idle(s)
    /\ LET r == remove(MC, Normalize(BUILTINS))
       IN  /\ cache' = r.cache
           /\ last_id' = r.last_id
           /\ IF IsSome(r.out)
              THEN /\ pc' = [pc EXCEPT ![s] = "init_removed"]
                   /\ local' = [local EXCEPT ![s].builtin = r.out]
                   /\ ret' = NoRet
              ELSE /\ ret' = Returned("initialize", None)
                   /\ UNCHANGED <<pc, local>>
           /\ arcs' = Sweep(arcs, r.cache, handle, local')
    /\ UNCHANGED handle
    /\ UNCHANGED <<evalVars, scopeVars>>

\* SharedModuleCache::initialize, `self.0.borrow_mut().clear()`
InitializeClear(s) ==
    /\ pc[s] = "init_removed"
    /\ LET r == clear(MC)
       IN  /\ cache' = r.cache
           /\ last_id' = r.last_id
           /\ arcs' = Sweep(arcs, r.cache, handle, local)
    /\ pc' = [pc EXCEPT ![s] = "init_cleared"]
    /\ UNCHANGED <<local, handle>>
    /\ ret' = NoRet
    /\ UNCHANGED <<evalVars, scopeVars>>

\* Arc::try_unwrap(builtin.module): Ok only for the last owner
try_unwrap_ok(s) == StrongCount(Unwrap(local[s].builtin).module) = 1

\* SharedModuleCache::initialize,
\* `self.register(builtin_path, None, Arc::try_unwrap(builtin.module).unwrap())`
InitializeRegister(s) ==
    /\ pc[s] = "init_cleared"
    /\ LET cell == Unwrap(local[s].builtin).module
       IN  IF try_unwrap_ok(s)
           THEN
                /\ last_id < MaxId
                /\ LET moved == [arcs EXCEPT ![cell].alive = FALSE]
                       r == register(MC, moved, Normalize(BUILTINS), "None", arcs[cell].ctx)
                   IN  /\ cache' = r.cache
                       /\ last_id' = r.last_id
                       /\ local' = [local EXCEPT ![s] = NoLocal]
                       /\ arcs' = Sweep(r.arcs, r.cache, handle, local')
                       /\ pc' = [pc EXCEPT ![s] = "idle"]
                       /\ ret' = Returned("initialize", None)
                       /\ handle' = handle
           ELSE \* unwrap() of Err: the thread panics and unwinds
                /\ local' = [local EXCEPT ![s] = NoLocal]
                /\ handle' = [handle EXCEPT ![s] = None]
                /\ arcs' = Sweep(arcs, cache, handle', local')
                /\ pc' = [pc EXCEPT ![s] = "panicked"]
                /\ ret' = Returned("panic", None)
                /\ UNCHANGED <<cache, last_id>>
    /\ UNCHANGED <<evalVars, scopeVars>>

\* no Context has been constructed
ScopeOff ==
    /\ live = None
    /\ builtins_entry = None
    /\ sret = NoRet

Init ==
    /\ cache = EmptyDict
    /\ last_id = 0
    /\ arcs = <<>>
    /\ pc = [s \in Sessions |-> "idle"]
    /\ local = [s \in Sessions |-> NoLocal]
    /\ handle = [s \in Sessions |-> None]
    /\ ret = NoRet
    /\ fv = EmptyDict
    /\ epc = "off"
    /\ ein = None
    /\ eres = None
    /\ ScopeOff

Next ==
    \E s \in Sessions :
        \/ \E path \in RawPaths, m \in Modules : SharedRegister(s, path, m.hir, m.ctx)
        \/ \E path \in RawPaths : SharedRemove(s, path)
        \/ \E id \in 0..MaxId : SharedRemoveById(s, id)
        \/ \E old \in RawPaths, new \in RawPaths : SharedRenamePath(s, old, new)
        \/ \E path \in RawPaths : SharedGetCtx(s, path)
        \/ DropCtx(s)
        \/ InitializeRemove(s)
        \/ InitializeClear(s)
        \/ InitializeRegister(s)

Spec == Init /\ [][Next]_vars

(***************************************************************************)
(* The guarded lookups of SharedModuleCache (get, get_mut, ref_ctx).  Each *)
(* takes the lock twice: a read guard for the `is_some()` test, dropped at *)
(* the end of the `if` condition, and then the guard that is mapped to the *)
(* entry and returned to the caller, who holds it until it is dropped.     *)
(***************************************************************************)
Lookups == {"get", "get_mut", "ref_ctx"}

\* Shared::borrow: a read guard is granted while no one else writes
CanRead(s) == \A t \in Sessions \ {s} : pc[t] # "write_guard"
\* Shared::borrow_mut: a write guard is granted while no one else holds a guard
CanWrite(s) == \A t \in Sessions \ {s} : pc[t] \notin {"read_guard", "write_guard"}

\* the guard that the second acquisition of a lookup takes
GuardOf(fn) == IF fn = "get_mut" THEN "write_guard" ELSE "read_guard"

\* what the mapped guard shows: the entry, or (ref_ctx) the entry's context
ViewOf(fn, entry) == IF fn = "ref_ctx" THEN arcs[entry.module].ctx ELSE entry

\* get / get_mut / ref_ctx, `if self.0.borrow().get(path).is_some()` and the
\* return of None in the else branch
LookupCheck(s, fn, path) ==
    /\ Idle(s)
    /\ CanRead(s)
    /\ IF IsSome(get(MC, path))
       THEN /\ pc' = [pc EXCEPT ![s] = "checked"]
            /\ local' = [local EXCEPT ![s] = [builtin |-> None, fn |-> fn, path |-> path]]
            /\ ret' = NoRet
       ELSE /\ ret' = Returned(fn, None)
            /\ UNCHANGED <<pc, local>>
    /\ UNCHANGED <<cache, last_id, arcs, handle>>
    /\ UNCHANGED <<evalVars, scopeVars>>

\* get / get_mut / ref_ctx, `Some(Guard::map(self.0.borrow..(), |cache|
\* cache.get(path).unwrap()))`: unwrap() of None panics and unwinds
LookupMap(s) ==
    /\ pc[s] = "checked"
    /\ IF GuardOf(local[s].fn) = "write_guard" THEN CanWrite(s) ELSE CanRead(s)
    /\ LET e == get(MC, local[s].path)
       IN  IF IsSome(e)
           THEN /\ pc' = [pc EXCEPT ![s] = GuardOf(local[s].fn)]
                /\ ret' = Returned(local[s].fn, Some(ViewOf(local[s].fn, Unwrap(e))))
                /\ UNCHANGED local
           ELSE /\ pc' = [pc EXCEPT ![s] = "panicked"]
                /\ local' = [local EXCEPT ![s] = NoLocal]
                /\ ret' = Returned("panic", None)
    /\ UNCHANGED <<cache, last_id, arcs, handle>>
    /\ UNCHANGED <<evalVars, scopeVars>>

\* the caller drops the mapped guard that a lookup returned
ReleaseGuard(s) ==
    /\ pc[s] \in {"read_guard", "write_guard"}
    /\ pc' = [pc EXCEPT ![s] = "idle"]
    /\ local' = [local EXCEPT ![s] = NoLocal]
    /\ UNCHANGED <<cache, last_id, arcs, handle, ret>>
    /\ UNCHANGED <<evalVars, scopeVars>>

NextLookup ==
    \E s \in Sessions :
        \/ \E fn \in Lookups, path \in RawPaths : LookupCheck(s, fn, path)
        \/ LookupMap(s)
        \/ ReleaseGuard(s)
        \/ \E path \in RawPaths : CanRead(s) /\ SharedGetCtx(s, path)
        \/ \E path \in RawPaths, m \in Modules :
               CanWrite(s) /\ SharedRegister(s, path, m.hir, m.ctx)
        \/ \E path \in RawPaths : CanWrite(s) /\ SharedRemove(s, path)
        \/ \E old \in RawPaths, new \in RawPaths :
               CanWrite(s) /\ SharedRenamePath(s, old, new)

SpecLookup == Init /\ [][NextLookup]_vars

(***************************************************************************)
(* Types, type parameters and values (context/eval.rs).  A term is a       *)
(* record tagged by `k`; a free variable is named by its id and its state  *)
(* lives in the store `fv`, so every copy of a term shares the variable.   *)
(***************************************************************************)
\* Type
Mono(name) == [k |-> "Mono", name |-> name]
Poly(name, params) == [k |-> "Poly", name |-> name, params |-> params]
FreeVar(id) == [k |-> "FreeVar", id |-> id]
Proj(lhs, rhs) == [k |-> "Proj", lhs |-> lhs, rhs |-> rhs]
Never == [k |-> "Never"]
Failure == [k |-> "Failure"]
Obj == [k |-> "Obj"]
Subr(params, return_t) == [k |-> "Subr", params |-> params, return_t |-> return_t]
Ref(t) == [k |-> "Ref", t |-> t]
And(l, r) == [k |-> "And", l |-> l, r |-> r]
Or(l, r) == [k |-> "Or", l |-> l, r |-> r]

\* TyParam
TpFreeVar(id) == [k |-> "TpFreeVar", id |-> id]
TpType(t) == [k |-> "TpType", t |-> t]
TpValue(v) == [k |-> "TpValue", v |-> v]
TpBinOp(op, lhs, rhs) == [k |-> "TpBinOp", op |-> op, lhs |-> lhs, rhs |-> rhs]

Not(t) == [k |-> "Not", t |-> t]

\* ValueObj
VType(t) == [k |-> "VType", t |-> t]
VNat(n) == [k |-> "VNat", n |-> n]
VInt(i) == [k |-> "VInt", i |-> i]
VBool(b) == [k |-> "VBool", b |-> b]
Illegal == [k |-> "Illegal"]

\* ValueObj::Type: a builtin type with its meta type (VType is the one with
\* the meta type Type), or a generated type
VBuiltin(t, meta_t) == [k |-> "VType", t |-> t, meta_t |-> meta_t]
VGen(t) == [k |-> "VType", t |-> t, gen |-> TRUE]
IsGen(v) == "gen" \in DOMAIN v
MetaOf(v) == IF "meta_t" \in DOMAIN v THEN v.meta_t ELSE "Type"
builtin_of(t, meta_t) == IF meta_t = "Type" THEN VType(t) ELSE VBuiltin(t, meta_t)

\* an EvalError
EvalError(kind) == [k |-> "Err", kind |-> kind]

\* FreeKind: the state of a free variable
Unbound(generalized, sub, sup) ==
    [k |-> "Unbound", generalized |-> generalized, sub |-> sub, sup |-> sup]
Linked(t) == [k |-> "Linked", t |-> t]
UndoableLinked(t, previous) == [k |-> "UndoableLinked", t |-> t, previous |-> previous]

\* a quantified variable before any substitution
Generalized == Unbound(TRUE, Never, Obj)

\* `let x = v;` followed by body(x): v is evaluated once, before the body
Let(v, body(_)) == CHOOSE y \in {body(x) : x \in {v}} : TRUE

\* Result<T, E> of the evaluator's functions, with the store they leave and
\* the number of times eval_proj started over on a coerced subject
Ok(val, store) == [ok |-> TRUE, val |-> val, store |-> store, retries |-> 0]
Err(kind, store) ==
    [ok |-> FALSE, val |-> [k |-> "Err", kind |-> kind], store |-> store, retries |-> 0]

(***************************************************************************)
(* Operations on free variables and on terms that eval.rs calls.           *)
(***************************************************************************)
is_var(t) == t.k \in {"FreeVar", "TpFreeVar"}
is_free_var(t) == t.k = "FreeVar"
is_linked(f, id) == f[id].k \in {"Linked", "UndoableLinked"}
is_undoable_linked(f, id) == f[id].k = "UndoableLinked"
is_unbound(f, id) == f[id].k = "Unbound"
crack(f, id) == f[id].t

\* a reversible link: the state before it is kept in `previous`
undoable_link(f, id, to) == [f EXCEPT ![id] = UndoableLinked(to, @)]
\* the reverse of undoable_link
undo(f, id) == IF f[id].k = "UndoableLinked" THEN [f EXCEPT ![id] = @.previous] ELSE f
\* a permanent link
link(f, id, to) == [f EXCEPT ![id] = Linked(to)]

RECURSIVE is_generalized(_, _)
is_generalized(f, t) ==
    IF is_var(t)
    THEN IF is_linked(f, t.id) THEN is_generalized(f, crack(f, t.id))
         ELSE f[t.id].generalized
    ELSE FALSE

RECURSIVE is_unbound_var(_, _)
is_unbound_var(f, t) ==
    IF is_var(t)
    THEN IF is_linked(f, t.id) THEN is_unbound_var(f, crack(f, t.id)) ELSE TRUE
    ELSE FALSE

RECURSIVE typarams(_, _)
typarams(f, t) ==
    CASE t.k = "Poly" -> t.params
      [] t.k = "FreeVar" /\ is_linked(f, t.id) -> typarams(f, crack(f, t.id))
      [] OTHER -> <<>>

RECURSIVE qual_name(_, _)
qual_name(f, t) ==
    CASE t.k \in {"Mono", "Poly"} -> t.name
      [] t.k = "FreeVar" /\ is_linked(f, t.id) -> qual_name(f, crack(f, t.id))
      [] t.k = "FreeVar" -> "?"
      [] OTHER -> t.k

\* Type::get_sub: the lower bound of an unbound variable
get_sub(f, t) ==
    IF t.k = "FreeVar" /\ is_unbound(f, t.id) THEN Some(f[t.id].sub) ELSE None

\* sub_unify / sub_unify_tp as the substitution engine uses them: they leave
\* the links alone, and their errors are only logged
sub_unify(f, st, qt) == f
sub_unify_tp(f, stp, qtp) == f

\* Context::convert_value_into_type
convert_value_into_type(f, v) ==
    IF v.k = "VType" THEN Ok(v.t, f) ELSE Err("not_a_type", f)

\* Context::convert_tp_into_type
RECURSIVE convert_tp_into_type(_, _)
convert_tp_into_type(f, tp) ==
    CASE tp.k = "TpFreeVar" /\ is_linked(f, tp.id) -> convert_tp_into_type(f, crack(f, tp.id))
      [] tp.k = "TpType" -> Ok(tp.t, f)
      [] tp.k = "TpValue" -> convert_value_into_type(f, tp.v)
      [] OTHER -> Err("not_a_type", f)

(***************************************************************************)
(* The substitution engine.  Every function returns the store it leaves.   *)
(***************************************************************************)
RECURSIVE substitute_typarams(_, _, _)
RECURSIVE substitute_typaram(_, _, _)
RECURSIVE substitute_type(_, _, _)
RECURSIVE substitute_zip(_, _, _, _)

\* the loop of substitute_typarams: `self.substitute_typaram(qtp, stp)?`
substitute_zip(f, qtps, stps, i) ==
    IF i > Len(qtps) THEN Ok(None, f)
    ELSE Let(substitute_typaram(f, qtps[i], stps[i]),
             LAMBDA r : IF r.ok THEN substitute_zip(r.store, qtps, stps, i + 1) ELSE r)

\* a substitute_typarams that reports the mismatch
substitute_typarams_strict(f, qt, st) ==
    IF qual_name(f, qt) # qual_name(f, st) \/ Len(typarams(f, qt)) # Len(typarams(f, st))
    THEN Err("mismatch", f)
    ELSE substitute_zip(f, typarams(f, qt), typarams(f, st), 1)

\* Context::substitute_typarams
substitute_typarams(f, qt, st) ==
    LET qtps == typarams(f, qt)
        stps == typarams(f, st)
    IN  IF qual_name(f, qt) # qual_name(f, st) \/ Len(qtps) # Len(stps)
        THEN IF IsSome(get_sub(f, st))
             THEN substitute_typarams(f, qt, Unwrap(get_sub(f, st)))
             ELSE Ok(None, f)
        ELSE substitute_zip(f, qtps, stps, 1)

\* Context::substitute_typaram
substitute_typaram(f, qtp, stp) ==
    CASE qtp.k = "TpFreeVar" /\ is_generalized(f, qtp) ->
           Let(IF ~is_unbound_var(f, stp) \/ ~is_generalized(f, stp)
               THEN undoable_link(f, qtp.id, stp)
               ELSE f,
               LAMBDA f1 : Ok(None, sub_unify_tp(f1, stp, qtp)))
      [] qtp.k = "TpType" -> substitute_type(f, stp, qtp.t)
      [] qtp.k = "TpValue" /\ qtp.v.k = "VType" -> substitute_type(f, stp, qtp.v.t)
      [] OTHER -> Ok(None, f)

\* Context::substitute_type
substitute_type(f, stp, qt) ==
    Let(convert_tp_into_type(f, stp), LAMBDA c :
      IF ~c.ok THEN Err("not_a_type", f)
      ELSE
        Let(~is_unbound_var(f, c.val) \/ ~is_generalized(f, c.val), LAMBDA bound :
        Let(IF is_generalized(f, qt) /\ is_free_var(qt) /\ bound
            THEN undoable_link(f, qt.id, c.val)
            ELSE f, LAMBDA f1 :
        Let(IF bound THEN substitute_typarams(f1, qt, c.val) ELSE Ok(None, f1), LAMBDA r :
          IF ~r.ok THEN r ELSE Ok(None, sub_unify(r.store, c.val, qt))))))

RECURSIVE undo_substitute_typarams(_, _)
RECURSIVE undo_each(_, _, _)

\* the loop of undo_substitute_typarams and its match
undo_each(f, tps, i) ==
    IF i > Len(tps) THEN f
    ELSE Let(CASE tps[i].k = "TpFreeVar" /\ is_undoable_linked(f, tps[i].id) ->
                    undo(f, tps[i].id)
               [] tps[i].k = "TpType" /\ is_free_var(tps[i].t) ->
                    IF is_undoable_linked(f, tps[i].t.id) THEN undo(f, tps[i].t.id) ELSE f
               [] tps[i].k = "TpType" /\ ~is_free_var(tps[i].t) ->
                    undo_substitute_typarams(f, tps[i].t)
               [] tps[i].k = "TpValue" /\ tps[i].v.k = "VType" ->
                    undo_substitute_typarams(f, tps[i].v.t)
               [] OTHER -> f,
             LAMBDA f1 : undo_each(f1, tps, i + 1))

\* Context::undo_substitute_typarams
undo_substitute_typarams(f, substituted_q) ==
    undo_each(f, typarams(f, substituted_q), 1)

(***************************************************************************)
(* The substitution engine on its own: substitute_typarams(q, c) followed  *)
(* by undo_substitute_typarams(q), for quantified types q and concrete     *)
(* types c.                                                                *)
(***************************************************************************)
\* the quantified variables
QuantVars == {"T", "N", "M"}

\* the parameters of a quantified type
QuantParams ==
    { TpFreeVar("N"),
      TpType(FreeVar("T")),
      TpType(Poly("G", <<TpFreeVar("M")>>)),
      TpValue(VType(FreeVar("T"))),
      TpValue(VType(Poly("G", <<TpFreeVar("M")>>))),
      TpValue(VNat(1)) }

\* the parameters of a concrete type
ConcreteParams ==
    { TpValue(VNat(3)),
      TpType(Mono("Int")),
      TpType(Poly("G", <<TpValue(VNat(2))>>)),
      TpValue(VType(Mono("Int"))) }

QuantTypes == {Poly("F", <<p, q>>) : p \in QuantParams, q \in QuantParams}
ConcreteTypes ==
    {Poly("F", <<p, q>>) : p \in ConcreteParams, q \in ConcreteParams}
        \cup {Poly("H", <<TpValue(VNat(3)), TpValue(VNat(3))>>), Mono("Int")}

CacheOff ==
    /\ cache = EmptyDict
    /\ last_id = 0
    /\ arcs = <<>>
    /\ pc = [s \in Sessions |-> "idle"]
    /\ local = [s \in Sessions |-> NoLocal]
    /\ handle = [s \in Sessions |-> None]
    /\ ret = NoRet

InitSubst ==
    /\ CacheOff
    /\ ScopeOff
    /\ fv = [v \in QuantVars |-> Generalized]
    /\ epc = "start"
    /\ ein \in {[q |-> q, c |-> c] : q \in QuantTypes, c \in ConcreteTypes}
    /\ eres = None

\* the call substitute_typarams(q, c)
Substitute ==
    /\ epc = "start"
    /\ LET r == substitute_typarams(fv, ein.q, ein.c)
       IN  /\ fv' = r.store
           /\ eres' = Some(r.ok)
    /\ epc' = "substituted"
    /\ UNCHANGED <<ein, cacheVars, scopeVars>>

\* the call undo_substitute_typarams(q)
UndoSubstitute ==
    /\ epc = "substituted"
    /\ fv' = undo_substitute_typarams(fv, ein.q)
    /\ epc' = "undone"
    /\ UNCHANGED <<ein, eres, cacheVars, scopeVars>>

NextSubst == Substitute \/ UndoSubstitute

SpecSubst == InitSubst /\ [][NextSubst]_vars

(***************************************************************************)
(* substitute_typarams(q, c) for a c that is not an instance of q: another *)
(* name, another number of parameters, or a variable L with a lower bound. *)
(***************************************************************************)
\* the types whose name or number of parameters differs from F(_, _)
OtherTypes ==
    { Poly("H", <<TpValue(VNat(3)), TpValue(VNat(3))>>),
      Poly("F", <<TpType(Mono("Int"))>>),
      Poly("F", <<TpType(Mono("Int")), TpValue(VNat(3)), TpValue(VNat(3))>>),
      Mono("Int") }

\* the lower bounds of L: types that differ from F(_, _), and instances of it
LowerBounds ==
    OtherTypes \cup
    { Never,
      Poly("F", <<TpType(Mono("Int")), TpValue(VNat(3))>>),
      Poly("F", <<TpValue(VNat(3)), TpType(Mono("Int"))>>),
      Poly("F", <<TpValue(VType(Mono("Int"))), TpType(Poly("G", <<TpValue(VNat(2))>>))>>) }

MismatchCases ==
    {[c |-> t, l |-> Unbound(FALSE, Never, Obj)] : t \in OtherTypes}
    \cup {[c |-> FreeVar("L"), l |-> Unbound(FALSE, sub, Obj)] : sub \in LowerBounds}

InitMismatch ==
    /\ CacheOff
    /\ ScopeOff
    /\ \E q \in QuantTypes, m \in MismatchCases :
         /\ ein = [q |-> q, c |-> m.c, l |-> m.l]
         /\ fv = [v \in QuantVars \cup {"L"} |-> IF v = "L" THEN m.l ELSE Generalized]
    /\ epc = "start"
    /\ eres = None

SpecMismatch == InitMismatch /\ [][Substitute]_vars

(***************************************************************************)
(* Contexts as the projection resolver reads them.  `world` is the set of  *)
(* contexts one evaluation runs against; the resolver never changes it.    *)
(***************************************************************************)
\* ClassDefType
Simple == [k |-> "Simple"]
ImplTrait(impl_trait) == [k |-> "ImplTrait", impl_trait |-> impl_trait]

\* Context: the fields the resolver reads
Context(name, consts, impl_of, methods_list) ==
    [name |-> name, consts |-> consts, impl_of |-> impl_of, methods_list |-> methods_list]

\* Context::get_const_local
get_const_local(methods, rhs) ==
    IF rhs \in DOMAIN methods.consts THEN Some(methods.consts[rhs]) ELSE None

\* Context::get_type: the quantified type registered under a name
get_type(world, name) == world.quant[name]

\* Context::get_same_name_context: the running context, when it has that name
get_same_name_context(world, name) ==
    IF world.self.name = name THEN Some(world.self) ELSE None

\* Context::get_nominal_super_type_ctxs: the context of the type, then the
\* contexts of its super types in the order they were registered
get_nominal_super_type_ctxs(world, f, t) ==
    LET name == qual_name(f, t)
    IN  IF name \in DOMAIN world.types
        THEN Some(<<world.types[name]>> \o
                  [i \in DOMAIN world.supers[name] |-> world.types[world.supers[name][i]]])
        ELSE None

\* a term with the links at its top followed
RECURSIVE deref(_, _)
deref(f, t) ==
    CASE is_var(t) /\ is_linked(f, t.id) -> deref(f, crack(f, t.id))
      [] t.k = "TpType" -> TpType(deref(f, t.t))
      [] OTHER -> t

\* Context::supertype_of: nominal, a parameter that is still a variable
\* accepts every argument
supertype_of(world, f, sup, sub) ==
    IF qual_name(f, sup) = qual_name(f, sub)
    THEN LET ps == typarams(f, sup)
             qs == typarams(f, sub)
         IN  /\ Len(ps) = Len(qs)
             /\ \A i \in DOMAIN ps :
                    \/ is_var(deref(f, ps[i]))
                    \/ deref(f, ps[i]).k = "TpType" /\ is_var(deref(f, ps[i]).t)
                    \/ deref(f, ps[i]) = deref(f, qs[i])
    ELSE <<qual_name(f, sub), qual_name(f, sup)>> \in world.trait_impls

\* Context::is_trait
is_trait(world, f, t) == qual_name(f, t) \in world.traits

\* Context::trait_impl_exists
trait_impl_exists(world, f, sub, sup) ==
    <<qual_name(f, sub), qual_name(f, sup)>> \in world.trait_impls

\* Context::coerce: the representative of a variable is its lower bound
coerce(f, t) ==
    CASE t.k = "FreeVar" /\ is_linked(f, t.id) -> crack(f, t.id)
      [] t.k = "FreeVar" -> f[t.id].sub
      [] OTHER -> t

\* a variable that FreeVar::detach made: it has the name, not the identity
Detached(name) == [k |-> "Detached", name |-> name]

RECURSIVE detach(_, _)
RECURSIVE detach_tp(_, _)

\* a detach that returns the type as it is
detach_attached(f, ty) == ty

\* Context::detach
detach(f, ty) ==
    CASE ty.k = "FreeVar" /\ is_linked(f, ty.id) -> detach(f, crack(f, ty.id))
      [] ty.k = "FreeVar" -> Detached(ty.id)
      [] ty.k = "Poly" ->
           Poly(ty.name, [i \in DOMAIN ty.params |-> detach_tp(f, ty.params[i])])
      [] OTHER -> ty

\* Context::detach_tp
detach_tp(f, tp) ==
    CASE tp.k = "TpFreeVar" /\ is_linked(f, tp.id) -> detach_tp(f, crack(f, tp.id))
      [] tp.k = "TpFreeVar" -> [k |-> "TpDetached", name |-> tp.id]
      [] tp.k = "TpType" -> TpType(detach(f, tp.t))
      [] OTHER -> tp

\* `|`, `&` and `^` on one bit
Bit(op, x, y) ==
    CASE op = "Or" -> IF x + y > 0 THEN 1 ELSE 0
      [] op = "And" -> x * y
      [] op = "BitXor" -> (x + y) % 2

\* `l | r`, `l & r` and `l ^ r` on two's complement integers: bit by bit
\* down to the sign
RECURSIVE IntBitOp(_, _, _)
IntBitOp(op, l, r) ==
    IF l \in {0, -1} /\ r \in {0, -1} THEN 0 - Bit(op, 0 - l, 0 - r)
    ELSE Bit(op, l % 2, r % 2) + 2 * IntBitOp(op, l \div 2, r \div 2)

\* Context::union, intersection and complement
union(l, r) ==
    IF l = r \/ r = Never THEN l ELSE IF l = Never THEN r ELSE Or(l, r)
intersection(l, r) ==
    IF l = r THEN l ELSE IF Never \in {l, r} THEN Never ELSE And(l, r)
complement(t) == Not(t)

\* the meta type of the result of eval_or_type and eval_and_type
MetaOfBoth(lhs, rhs) ==
    IF MetaOf(lhs) = MetaOf(rhs) /\ MetaOf(lhs) \in {"ClassType", "TraitType"}
    THEN MetaOf(lhs) ELSE "Type"

\* Context::eval_or_type
eval_or_type(lhs, rhs) ==
    IF ~IsGen(lhs) /\ ~IsGen(rhs)
    THEN builtin_of(union(lhs.t, rhs.t), MetaOfBoth(lhs, rhs))
    ELSE VGen(union(lhs.t, rhs.t))

\* Context::eval_and_type
eval_and_type(lhs, rhs) ==
    IF ~IsGen(lhs) /\ ~IsGen(rhs)
    THEN builtin_of(intersection(lhs.t, rhs.t), MetaOfBoth(lhs, rhs))
    ELSE VGen(intersection(lhs.t, rhs.t))

\* Context::eval_not_type
eval_not_type(ty) ==
    IF ~IsGen(ty)
    THEN builtin_of(complement(ty.t),
                    IF MetaOf(ty) \in {"ClassType", "TraitType"} THEN MetaOf(ty) ELSE "Type")
    ELSE Illegal

\* ValueObj::try_add
try_add(lhs, rhs) ==
    CASE lhs.k = "VNat" /\ rhs.k = "VNat" -> Some(VNat(lhs.n + rhs.n))
      [] lhs.k = "VInt" /\ rhs.k = "VInt" -> Some(VInt(lhs.i + rhs.i))
      [] OTHER -> None

\* ValueObj::try_sub, try_mul, try_div, try_floordiv, try_gt, try_ge, try_lt,
\* try_le, try_eq, try_ne on two integers or two naturals
VFloat(num, den) == [k |-> "VFloat", num |-> num, den |-> den]

IntOf(v) == IF v.k = "VNat" THEN v.n ELSE v.i

try_op(op, lhs, rhs) ==
    IF ~(lhs.k = rhs.k /\ lhs.k \in {"VNat", "VInt"}) THEN None
    ELSE Let(<<IntOf(lhs), IntOf(rhs)>>, LAMBDA p :
         CASE op = "Sub" -> Some(VInt(p[1] - p[2]))
           [] op = "Mul" -> Some(IF lhs.k = "VNat" THEN VNat(p[1] * p[2]) ELSE VInt(p[1] * p[2]))
           [] op = "Div" -> IF p[2] = 0 THEN None ELSE Some(VFloat(p[1], p[2]))
           [] op = "FloorDiv" -> IF p[2] = 0 THEN None ELSE Some(VInt(p[1] \div p[2]))
           [] op = "Gt" -> Some(VBool(p[1] > p[2]))
           [] op = "Ge" -> Some(VBool(p[1] >= p[2]))
           [] op = "Lt" -> Some(VBool(p[1] < p[2]))
           [] op = "Le" -> Some(VBool(p[1] <= p[2]))
           [] op = "Eq" -> Some(VBool(p[1] = p[2]))
           [] op = "Ne" -> Some(VBool(p[1] # p[2]))
           [] OTHER -> None)

\* Context::eval_bin: every arm
eval_bin(op, lhs, rhs) ==
    CASE op = "Add" ->
           IF IsSome(try_add(lhs, rhs)) THEN Unwrap(try_add(lhs, rhs))
           ELSE EvalError("unreachable")
      [] op \in {"Sub", "Mul", "Div", "FloorDiv", "Gt", "Ge", "Lt", "Le", "Eq", "Ne"} ->
           IF IsSome(try_op(op, lhs, rhs)) THEN Unwrap(try_op(op, lhs, rhs))
           ELSE EvalError("unreachable")
      [] op \in {"Or", "BitOr"} ->
           (CASE lhs.k = "VBool" /\ rhs.k = "VBool" -> VBool(lhs.b \/ rhs.b)
              [] lhs.k = "VInt" /\ rhs.k = "VInt" -> VInt(IntBitOp("Or", lhs.i, rhs.i))
              [] lhs.k = "VType" /\ rhs.k = "VType" -> eval_or_type(lhs, rhs)
              [] OTHER -> EvalError("unreachable"))
      [] op \in {"And", "BitAnd"} ->
           (CASE lhs.k = "VBool" /\ rhs.k = "VBool" -> VBool(lhs.b /\ rhs.b)
              [] lhs.k = "VInt" /\ rhs.k = "VInt" -> VInt(IntBitOp("And", lhs.i, rhs.i))
              [] lhs.k = "VType" /\ rhs.k = "VType" -> eval_and_type(lhs, rhs)
              [] OTHER -> EvalError("unreachable"))
      [] op = "BitXor" ->
           (CASE lhs.k = "VBool" /\ rhs.k = "VBool" -> VBool(lhs.b # rhs.b)
              [] lhs.k = "VInt" /\ rhs.k = "VInt" -> VInt(IntBitOp("BitXor", lhs.i, rhs.i))
              [] OTHER -> EvalError("unreachable"))
      [] OTHER -> EvalError("unreachable")

\* Context::eval_unary_val
eval_unary_val(op, val) ==
    IF op = "Not"
    THEN CASE val.k = "VBool" -> VBool(~val.b)
           [] val.k = "VType" -> eval_not_type(val)
           [] OTHER -> EvalError("unreachable")
    ELSE EvalError("unreachable")

\* OpKind::is_comparison
is_comparison(op) == op \in {"Gt", "Ge", "Lt", "Le", "Eq", "Ne"}

\* Context::eval_bin_tp, without the arms for Dict, Array and Erased; a
\* failure is the parameter TpErr
TpErr == [k |-> "TpErr"]

RECURSIVE eval_bin_tp(_, _, _, _)
eval_bin_tp(f, op, lhs, rhs) ==
    IF lhs.k = "TpValue" /\ rhs.k = "TpValue"
    THEN Let(eval_bin(op, lhs.v, rhs.v),
             LAMBDA v : IF v.k = "Err" THEN TpErr ELSE TpValue(v))
    ELSE IF lhs.k = "TpFreeVar" /\ is_linked(f, lhs.id)
    THEN eval_bin_tp(f, op, crack(f, lhs.id), rhs)
    ELSE IF lhs.k = "TpFreeVar" /\ is_comparison(op) THEN TpValue(VBool(TRUE))
    ELSE IF rhs.k = "TpFreeVar" /\ is_linked(f, rhs.id)
    THEN eval_bin_tp(f, op, lhs, crack(f, rhs.id))
    ELSE IF rhs.k = "TpFreeVar" /\ is_comparison(op) THEN TpValue(VBool(TRUE))
    ELSE IF lhs.k = "TpFreeVar" \/ rhs.k = "TpFreeVar" THEN TpBinOp(op, lhs, rhs)
    ELSE TpErr

\* Context::eval_tp: a linked variable, a binary operation, and the forms
\* that are returned as they are
RECURSIVE eval_tp(_, _)
eval_tp(f, p) ==
    CASE p.k = "TpFreeVar" /\ is_linked(f, p.id) -> eval_tp(f, crack(f, p.id))
      [] p.k = "TpBinOp" -> eval_bin_tp(f, p.op, p.lhs, p.rhs)
      [] OTHER -> p

\* the condition below without the look-up of the trait implementation
trait_impl_unchecked(world, f, sub, sup) == is_trait(world, f, sup)

\* the condition below taken to be false for every pair
trait_impl_never_missing(world, f, sub, sup) == FALSE

\* `self.is_trait(&sup) && !self.trait_impl_exists(&sub, &sup)`
trait_impl_missing(world, f, sub, sup) ==
    is_trait(world, f, sup) /\ ~trait_impl_exists(world, f, sub, sup)

(***************************************************************************)
(* The projection resolver.                                                *)
(***************************************************************************)
\* eval_proj that leaves every projection unevaluated
eval_proj_unevaluated(world, f, lhs, rhs) == Ok(Proj(lhs, rhs), f)

\* eval_proj that finds no candidate for any subject
eval_proj_no_candidate(world, f, lhs, rhs) == Err("no_candidate", f)

RECURSIVE eval_t_params(_, _, _)
RECURSIVE eval_proj(_, _, _, _)
RECURSIVE validate_and_project(_, _, _, _, _, _)
RECURSIVE try_methods(_, _, _, _, _, _, _)
RECURSIVE try_ty_ctxs(_, _, _, _, _, _, _)

\* what validate_and_project returns, the store it leaves and the return it took
Projected(out, store, path) == [out |-> out, store |-> store, path |-> path]

\* Context::eval_t_params
eval_t_params(world, f, substituted) ==
    CASE substituted.k = "FreeVar" /\ is_linked(f, substituted.id) ->
           eval_t_params(world, f, crack(f, substituted.id))
      [] substituted.k = "Proj" -> eval_proj(world, f, substituted.lhs, substituted.rhs)
      [] substituted.k = "Poly" ->
           Let([i \in DOMAIN substituted.params |-> eval_tp(f, substituted.params[i])],
               LAMBDA params :
                 IF \E i \in DOMAIN params : params[i] = TpErr
                 THEN Err("eval_tp", f)
                 ELSE Ok(Poly(substituted.name, params), f))
      [] OTHER -> Ok(substituted, f)

\* Context::validate_and_project
validate_and_project(world, f, sub, opt_sup, rhs, methods) ==
    IF ~IsSome(get_const_local(methods, rhs)) THEN Projected(None, f, "no_const")
    ELSE IF /\ IsSome(opt_sup) /\ IsSome(methods.impl_of)
            /\ ~supertype_of(world, f, Unwrap(methods.impl_of), Unwrap(opt_sup))
    THEN Projected(None, f, "not_supertype")
    ELSE IF Unwrap(get_const_local(methods, rhs)).k # "VType"
    THEN Projected(None, f, "not_a_type")
    ELSE
      LET projected_t == Unwrap(get_const_local(methods, rhs)).t
          quant_sub == get_type(world, qual_name(f, sub))
      IN
      Let(IF IsSome(opt_sup) /\ IsSome(methods.impl_of)
          THEN substitute_typarams(f, Unwrap(methods.impl_of), Unwrap(opt_sup))
          ELSE Ok(None, f), LAMBDA r1 :
        IF ~r1.ok
        THEN Projected(None, undo_substitute_typarams(r1.store, Unwrap(methods.impl_of)),
                       "sup_failed")
        ELSE
          Let(substitute_typarams(r1.store, quant_sub, sub), LAMBDA r2 :
            IF ~r2.ok
            THEN Projected(None, undo_substitute_typarams(r2.store, quant_sub),
                           "sub_failed")
            ELSE
              Let(eval_t_params(world, r2.store, projected_t), LAMBDA res :
              Let(undo_substitute_typarams(res.store, quant_sub), LAMBDA f3 :
              Let(IF IsSome(methods.impl_of)
                  THEN undo_substitute_typarams(f3, Unwrap(methods.impl_of))
                  ELSE f3, LAMBDA f4 :
                IF res.ok
                THEN Projected(Some(detach(res.store, res.val)), f4, "projected")
                ELSE Projected(None, f4, "eval_failed"))))))

\* the loop below without the `continue` of the pairs whose trait does not fit
try_methods_unskipped(world, f, sub, opt_sup, rhs, methods_list, j) ==
    IF j > Len(methods_list) THEN Projected(None, f, "none")
    ELSE Let(validate_and_project(world, f, sub, opt_sup, rhs, methods_list[j].methods),
             LAMBDA r :
               IF IsSome(r.out) THEN r
               ELSE try_methods(world, r.store, sub, opt_sup, rhs, methods_list, j + 1))

\* eval_proj, `for (class, methods) in ty_ctx.methods_list.iter()`
try_methods(world, f, sub, opt_sup, rhs, methods_list, j) ==
    IF j > Len(methods_list) THEN Projected(None, f, "none")
    ELSE
      LET class == methods_list[j].class
          methods == methods_list[j].methods
      IN  IF /\ class.k = "ImplTrait"
             /\ ~supertype_of(world, f, class.impl_trait,
                              IF IsSome(opt_sup) THEN Unwrap(opt_sup) ELSE sub)
          THEN try_methods(world, f, sub, opt_sup, rhs, methods_list, j + 1)
          ELSE Let(validate_and_project(world, f, sub, opt_sup, rhs, methods), LAMBDA r :
                 IF IsSome(r.out) THEN r
                 ELSE try_methods(world, r.store, sub, opt_sup, rhs, methods_list, j + 1))

\* eval_proj, `for ty_ctx in ty_ctxs`
try_ty_ctxs(world, f, sub, opt_sup, rhs, ty_ctxs, i) ==
    IF i > Len(ty_ctxs) THEN Projected(None, f, "none")
    ELSE
      Let(validate_and_project(world, f, sub, opt_sup, rhs, ty_ctxs[i]), LAMBDA r :
        IF IsSome(r.out) THEN r
        ELSE Let(try_methods(world, r.store, sub, opt_sup, rhs, ty_ctxs[i].methods_list, 1),
                 LAMBDA r2 :
                   IF IsSome(r2.out) THEN r2
                   ELSE try_ty_ctxs(world, r2.store, sub, opt_sup, rhs, ty_ctxs, i + 1)))

\* Context::eval_proj
eval_proj(world, f, lhs, rhs) ==
    IF lhs.k \in {"Never", "Failure"} THEN Ok(lhs, f)
    ELSE IF lhs.k = "FreeVar" /\ is_linked(f, lhs.id)
    THEN eval_t_params(world, f, Proj(crack(f, lhs.id), rhs))
    ELSE
      LET unbound == lhs.k = "FreeVar" /\ is_unbound(f, lhs.id)
          sub == IF unbound THEN f[lhs.id].sub ELSE lhs
          opt_sup == IF unbound THEN Some(f[lhs.id].sup) ELSE None
      IN  IF sub = Never THEN Ok(Proj(lhs, rhs), f)
          ELSE
            Let(IF IsSome(get_same_name_context(world, qual_name(f, sub)))
                THEN validate_and_project(world, f, sub, opt_sup, rhs, world.self)
                ELSE Projected(None, f, "none"), LAMBDA r0 :
              IF IsSome(r0.out) THEN Ok(Unwrap(r0.out), r0.store)
              ELSE IF ~IsSome(get_nominal_super_type_ctxs(world, r0.store, sub))
              THEN Err("type_not_found", r0.store)
              ELSE
                Let(try_ty_ctxs(world, r0.store, sub, opt_sup, rhs,
                                Unwrap(get_nominal_super_type_ctxs(world, r0.store, sub)), 1),
                    LAMBDA r1 :
                  IF IsSome(r1.out) THEN Ok(Unwrap(r1.out), r1.store)
                  ELSE IF /\ lhs.k = "FreeVar"
                          /\ trait_impl_missing(world, r1.store, r1.store[lhs.id].sub,
                                                r1.store[lhs.id].sup)
                  THEN Err("no_trait_impl", link(r1.store, lhs.id, Never))
                  ELSE IF lhs # coerce(r1.store, lhs)
                  THEN Let(eval_t_params(world, r1.store, Proj(coerce(r1.store, lhs), rhs)),
                           LAMBDA r2 : [r2 EXCEPT !.retries = @ + 1])
                  ELSE Err("no_candidate", r1.store)))

(***************************************************************************)
(* Module cache: ids.                                                      *)
(***************************************************************************)
Ids(c) == {c[p].id : p \in DOMAIN c}

\* C4: every register gives the new entry an id above every id assigned
\* before: no entry carries an id above last_id, last_id never decreases
\* (whatever remove, remove_by_id, rename_path, clear or initialize did in
\* between), and an id that appears in the cache is above the old last_id.
C4_RegisterIdsStrictlyIncrease ==
    /\ [](\A p \in DOMAIN cache : cache[p].id <= last_id)
    /\ [][/\ last_id' >= last_id
          /\ \A i \in Ids(cache') \ Ids(cache) : i > last_id /\ i = last_id']_vars

\* a register that follows an initialize: the builtins entry is the one that
\* initialize registered (no compiled unit), the id it had before is gone,
\* and the entry just registered carries the largest id
C4_Witness ==
    /\ ret.op = "register"
    /\ DOMAIN cache = {BUILTINS, "a"}
    /\ cache[BUILTINS].hir = "None"
    /\ cache[BUILTINS].id = 2
    /\ cache["a"].id = last_id

\* C5: remove_by_id(i) returns the entry that carries id i, a lookup of its
\* path is absent afterwards and all other entries are unchanged; for an id
\* that no entry carries it returns nothing and changes nothing.
C5_RemoveByIdRemovesThatEntry ==
    [][\A s \in Sessions, i \in 0..MaxId :
        SharedRemoveById(s, i) =>
            IF i \in Ids(cache)
            THEN \E p \in DOMAIN cache :
                    /\ cache[p].id = i
                    /\ ret' = Returned("remove_by_id", Some(cache[p]))
                    /\ get(MC', p) = None
                    /\ DOMAIN cache' = DOMAIN cache \ {p}
                    /\ \A q \in DOMAIN cache' : cache'[q] = cache[q]
                    /\ last_id' = last_id
            ELSE /\ ret' = Returned("remove_by_id", None)
                 /\ cache' = cache
                 /\ last_id' = last_id]_vars

\* remove_by_id has just returned an entry, and another entry is still cached
C5_Witness ==
    /\ ret.op = "remove_by_id"
    /\ IsSome(ret.out)
    /\ cache # <<>>
    /\ Unwrap(ret.out).id \notin Ids(cache)

\* the outcome of rename_path(old, new) that C6 states
RenameMoves(old, new) ==
    IF old \in DOMAIN cache
    THEN /\ get(MC', old) = None
         /\ get(MC', Normalize(new)) = Some(cache[old])
         /\ last_id' = last_id
    ELSE /\ cache' = cache
         /\ last_id' = last_id

\* C6 as stated: rename_path(old, new) leaves old absent and new holding
\* the entry, id and content unchanged; nothing changes when old is absent.
C6_RenameMovesEntry ==
    [][\A s \in Sessions, old \in RawPaths, new \in RawPaths :
        SharedRenamePath(s, old, new) => RenameMoves(old, new)]_vars

\* C6 amended: the same when new names another path than old; when new names
\* the path of old, the cache is unchanged and old still holds the entry.
C6_RenameMovesEntryToOtherPath ==
    [][\A s \in Sessions, old \in RawPaths, new \in RawPaths :
        SharedRenamePath(s, old, new) =>
            IF Normalize(new) # old
            THEN RenameMoves(old, new)
            ELSE cache' = cache /\ last_id' = last_id]_vars

\* rename_path has just moved an entry: the builtins entry, which initialize
\* registered with no compiled unit, is now cached as "a", and nowhere else
C6_Witness ==
    /\ ret.op = "rename_path"
    /\ DOMAIN cache = {"a"}
    /\ cache["a"].hir = "None"

\* C7 as stated: after initialize() the cache holds exactly the builtins
\* entry and every other module is discarded, whatever it held before
\* (stated for the caches in which something was registered before).
C7_InitializeLeavesOnlyBuiltins ==
    (ret.op = "initialize" /\ last_id > 0) => DOMAIN cache = {BUILTINS}

\* C8 as stated: the builtins entry carries id 0, and no other entry does.
C8_BuiltinsHasIdZero ==
    \A p \in DOMAIN cache : (p = BUILTINS) <=> (cache[p].id = ModIdBuiltin)

\* C9 as stated: no session sees the cache without its builtins entry while
\* another session runs initialize().
C9_InitializeIsOneWrite ==
    [][\A s \in Sessions :
        (SharedGetCtx(s, BUILTINS) /\ Initializing \ {s} # {})
            => IsSome(handle'[s])]_vars

\* C10: the context a reader holds from get_ctx stays allocated and keeps
\* its content, whatever happens to the cache entry it came from.
C10_HeldContextStaysValid ==
    \A s \in Sessions :
        IsSome(handle[s]) =>
            /\ arcs[Unwrap(handle[s]).cell].alive
            /\ arcs[Unwrap(handle[s]).cell].ctx = Unwrap(handle[s]).ctx

\* a reader holds a context whose entry is no longer in the cache
C10_Witness ==
    \E s \in Sessions :
        /\ IsSome(handle[s])
        /\ \A p \in DOMAIN cache : cache[p].module # Unwrap(handle[s]).cell
        /\ ret.op \in {"register", "remove", "initialize", "panic"}

(***************************************************************************)
(* The projection resolver on its own: eval_proj twice with the same       *)
(* arguments, against a world that stays as it is.  The type F is          *)
(* registered with one parameter; its methods list holds the candidates.   *)
(***************************************************************************)
\* the trait a candidate implements: `Add(M)`
AddM == Poly("Add", <<TpType(FreeVar("M"))>>)

\* the quantified type registered for F
QuantF ==
    { Poly("F", <<TpType(FreeVar("T"))>>),
      Poly("F", <<TpValue(VType(FreeVar("T")))>>),
      Poly("F", <<TpFreeVar("N")>>) }

\* the (class, methods) pairs of F for rhs `Output`
ImplAdd(q) ==
    [class |-> ImplTrait(AddM),
     methods |-> Context("F", "Output" :> VType(Poly("G", <<q.params[1], TpType(FreeVar("M"))>>)),
                         Some(AddM), <<>>)]
ImplAddNat ==
    [class |-> ImplTrait(AddM),
     methods |-> Context("F", "Output" :> VNat(1), Some(AddM), <<>>)]
ImplAddProj ==
    [class |-> ImplTrait(AddM),
     methods |-> Context("F", "Output" :> VType(Proj(Mono("Int"), "Missing")), Some(AddM), <<>>)]
ImplEq ==
    [class |-> ImplTrait(Mono("Eq")),
     methods |-> Context("F", "Output" :> VType(Mono("Bool")), Some(Mono("Eq")), <<>>)]
Own ==
    [class |-> Simple,
     methods |-> Context("F", "Output" :> VType(Mono("Int")), None, <<>>)]
OwnOther ==
    [class |-> Simple,
     methods |-> Context("F", "Other" :> VType(Mono("Int")), None, <<>>)]

MethodsLists(q) ==
    { <<>>, <<ImplAdd(q)>>, <<Own>>, <<ImplAddNat, ImplAdd(q)>>, <<ImplEq, ImplAdd(q)>>,
      <<ImplAddProj, Own>>, <<OwnOther, ImplAdd(q)>>, <<ImplAddNat, ImplAddProj>> }

\* the running context: the module, or the methods of F
Selves ==
    { Context("<module>", EmptyDict, None, <<>>),
      Context("F", "Output" :> VType(Mono("Self")), None, <<>>) }

\* the constants of Base, the super class of F
BaseConsts == {EmptyDict, "Output" :> VType(Mono("Str"))}

\* the trait implementations that are registered
TraitImpls == {{}, {<<"F", "Add">>, <<"Int", "Add">>}}

World(q, methods_list, self, base, impls) ==
    [self |-> self,
     types |-> [n \in {"Int", "F", "Base"} |->
                  CASE n = "Int" -> Context("Int", EmptyDict, None, <<>>)
                    [] n = "F" -> Context("F", EmptyDict, None, methods_list)
                    [] n = "Base" -> Context("Base", base, None, <<>>)],
     supers |-> [n \in {"Int", "F", "Base"} |-> IF n = "F" THEN <<"Base">> ELSE <<>>],
     quant |-> [n \in {"Int", "F", "Base"} |-> IF n = "F" THEN q ELSE Mono(n)],
     traits |-> {"Add", "Eq"},
     trait_impls |-> impls]

Worlds ==
    UNION { {World(q, ml, self, base, impls) : ml \in MethodsLists(q)} :
            q \in QuantF, self \in Selves, base \in BaseConsts, impls \in TraitImpls }

\* the subjects: F with a type, a type value or a number as its parameter
Subjects ==
    { Poly("F", <<TpType(Mono("Int"))>>),
      Poly("F", <<TpValue(VType(Mono("Int")))>>),
      Poly("F", <<TpValue(VNat(3))>>) }

\* the upper bounds: `Add(Int)` and `Add(3)`
AddInt == Poly("Add", <<TpType(Mono("Int"))>>)
AddNat == Poly("Add", <<TpValue(VNat(3))>>)
Constraints == {AddInt, AddNat}

\* the lhs of the projection and, when it is the variable L, the state of L
LhsCases ==
    {[lhs |-> t, l |-> Unbound(FALSE, Never, Obj)] :
        t \in Subjects \cup {Never, Failure, Mono("Int"), Mono("Unknown")}}
    \cup {[lhs |-> FreeVar("L"), l |-> Unbound(FALSE, sub, sup)] :
            sub \in Subjects \cup {Never, Mono("Int")}, sup \in Constraints \cup {Obj}}
    \cup {[lhs |-> FreeVar("L"), l |-> Linked(t)] : t \in Subjects}

InitProj ==
    /\ CacheOff
    /\ ScopeOff
    /\ \E w \in Worlds, c \in LhsCases :
         /\ ein = [world |-> w, lhs |-> c.lhs, l |-> c.l, rhs |-> "Output"]
         /\ fv = [v \in QuantVars \cup {"L"} |-> IF v = "L" THEN c.l ELSE Generalized]
    /\ epc = "start"
    /\ eres = <<>>

\* one call of eval_proj(lhs, rhs); the second call has the arguments of the first
EvalProj ==
    /\ epc \in {"start", "once"}
    /\ LET r == eval_proj(ein.world, fv, ein.lhs, ein.rhs)
       IN  /\ fv' = r.store
           /\ eres' = Append(eres, [ok |-> r.ok, val |-> r.val, retries |-> r.retries])
    /\ epc' = IF epc = "start" THEN "once" ELSE "twice"
    /\ UNCHANGED <<ein, cacheVars, scopeVars>>

NextProj == EvalProj

\* what the i-th call returned
Res(i) == [ok |-> eres[i].ok, val |-> eres[i].val]

SpecProj == InitProj /\ [][NextProj]_vars

(***************************************************************************)
(* validate_and_project on its own: one call for a subject, an upper bound *)
(* and one of the contexts eval_proj hands to it.                          *)
(***************************************************************************)
InitValidate ==
    /\ CacheOff
    /\ ScopeOff
    /\ \E w \in Worlds : ein = [world |-> w, rhs |-> "Output"]
    /\ fv = [v \in QuantVars |-> Generalized]
    /\ epc = "start"
    /\ eres = <<>>

\* one call of validate_and_project(sub, opt_sup, rhs, methods)
ValidateAndProject(sub, opt_sup, methods) ==
    /\ epc = "start"
    /\ LET r == validate_and_project(ein.world, fv, sub, opt_sup, ein.rhs, methods)
       IN  /\ fv' = r.store
           /\ eres' = <<[sub |-> sub, opt_sup |-> opt_sup, methods |-> methods,
                         out |-> r.out, path |-> r.path]>>
    /\ epc' = "validated"
    /\ UNCHANGED <<ein, cacheVars, scopeVars>>

\* the contexts eval_proj hands to validate_and_project for a subject F(..)
Candidates(world) ==
    {world.self, world.types["F"], world.types["Base"]}
        \cup {world.types["F"].methods_list[j].methods : j \in DOMAIN world.types["F"].methods_list}

NextValidate ==
    \E sub \in Subjects, opt_sup \in {None} \cup {Some(sup) : sup \in Constraints},
       methods \in Candidates(ein.world) :
         ValidateAndProject(sub, opt_sup, methods)

SpecValidate == InitValidate /\ [][NextValidate]_vars

(***************************************************************************)
(* The projection of Output on an array type: Array is registered as       *)
(* Array(T, N) and its methods state Output in terms of T and N.           *)
(***************************************************************************)
\* the largest length of a subject
MaxLen == 3

\* the variable T as it is written in Array(T, N) and in Output
ElemForms == {TpType(FreeVar("T")), TpFreeVar("T")}

\* N + N
NPlusN == TpBinOp("Add", TpFreeVar("N"), TpFreeVar("N"))

\* the lengths that Output states
OutputLens == {NPlusN, TpFreeVar("N"), TpBinOp("Add", TpFreeVar("N"), TpValue(VNat(1)))}

ArrayWorld(elem, len) ==
    [self |-> Context("<module>", EmptyDict, None, <<>>),
     types |-> [n \in {"Array", "Int", "Str"} |->
                  IF n = "Array"
                  THEN Context("Array", EmptyDict, None,
                               <<[class |-> Simple,
                                  methods |-> Context("Array",
                                                      "Output" :> VType(Poly("Array", <<elem, len>>)),
                                                      None, <<>>)]>>)
                  ELSE Context(n, EmptyDict, None, <<>>)],
     supers |-> [n \in {"Array", "Int", "Str"} |-> <<>>],
     quant |-> [n \in {"Array", "Int", "Str"} |->
                  IF n = "Array" THEN Poly("Array", <<elem, TpFreeVar("N")>>) ELSE Mono(n)],
     traits |-> {},
     trait_impls |-> {}]

\* the subjects Array(t, n)
ArraySubjects ==
    {Poly("Array", <<TpType(t), TpValue(VNat(n))>>) :
        t \in {Mono("Int"), Mono("Str"), Poly("Array", <<TpType(Mono("Int")), TpValue(VNat(1))>>)},
        n \in 0..MaxLen}

InitArray ==
    /\ CacheOff
    /\ ScopeOff
    /\ \E elem \in ElemForms, len \in OutputLens, lhs \in ArraySubjects :
         ein = [world |-> ArrayWorld(elem, len), lhs |-> lhs, rhs |-> "Output"]
    /\ fv = [v \in QuantVars |-> Generalized]
    /\ epc = "start"
    /\ eres = <<>>

SpecArray == InitArray /\ [][NextProj]_vars

(***************************************************************************)
(* detach on its own: a type of each shape over the variables T, N and M,  *)
(* with T unbound or linked.                                               *)
(***************************************************************************)
\* the types that the shapes below are made of
DetachAtoms == {FreeVar("T"), FreeVar("M"), Mono("Int")}

\* the second parameter of F
DetachParams ==
    { TpFreeVar("N"),
      TpType(FreeVar("T")),
      TpValue(VType(FreeVar("T"))),
      TpBinOp("Add", TpFreeVar("N"), TpFreeVar("N")),
      TpValue(VNat(3)) }

DetachShapes ==
    DetachAtoms
    \cup {Poly("F", <<TpType(a), p>>) : a \in DetachAtoms, p \in DetachParams}
    \cup {Subr(<<a>>, b) : a, b \in DetachAtoms}
    \cup {Ref(a) : a \in DetachAtoms}
    \cup {Or(a, b) : a, b \in DetachAtoms}
    \cup {And(a, b) : a, b \in DetachAtoms}

InitDetach ==
    /\ CacheOff
    /\ ScopeOff
    /\ ein \in {[ty |-> t] : t \in DetachShapes}
    /\ fv \in {[v \in QuantVars |-> IF v = "T" THEN l ELSE Unbound(FALSE, Never, Obj)] :
                 l \in {Unbound(FALSE, Never, Obj), UndoableLinked(Mono("Int"), Generalized)}}
    /\ epc = "start"
    /\ eres = None

\* the call detach(ty, tv_cache) with an empty tv_cache
Detach ==
    /\ epc = "start"
    /\ eres' = Some(detach(fv, ein.ty))
    /\ epc' = "detached"
    /\ UNCHANGED <<fv, ein, cacheVars, scopeVars>>

NextDetach == Detach

SpecDetach == InitDetach /\ [][NextDetach]_vars

(***************************************************************************)
(* Claims about the substitution engine (SpecSubst).                       *)
(***************************************************************************)
\* the variables of the store that occur in a type or in a type parameter
RECURSIVE VarsOf(_)
VarsOf(t) ==
    CASE t.k \in {"FreeVar", "TpFreeVar"} -> {t.id}
      [] t.k = "Poly" -> UNION {VarsOf(t.params[i]) : i \in DOMAIN t.params}
      [] t.k = "Subr" -> UNION {VarsOf(t.params[i]) : i \in DOMAIN t.params}
                           \cup VarsOf(t.return_t)
      [] t.k \in {"Ref", "TpType"} -> VarsOf(t.t)
      [] t.k \in {"And", "Or"} -> VarsOf(t.l) \cup VarsOf(t.r)
      [] t.k = "TpBinOp" -> VarsOf(t.lhs) \cup VarsOf(t.rhs)
      [] t.k = "TpValue" /\ t.v.k = "VType" -> VarsOf(t.v.t)
      [] t.k = "Proj" -> VarsOf(t.lhs)
      [] OTHER -> {}

SameNameAndArity(q, c) ==
    /\ q.k = "Poly" /\ c.k = "Poly"
    /\ q.name = c.name
    /\ Len(q.params) = Len(c.params)

\* C1: for a quantified type q and a concrete type c of the same qualified
\* name and arity, after substitute_typarams(q, c) followed by
\* undo_substitute_typarams(q) every free variable reachable from q (a
\* top-level parameter, nested in a type-valued parameter, or wrapped as
\* Value(Type)) is unbound and unlinked as it was before the call.
C1_UndoRestoresEveryVariable ==
    (epc = "undone" /\ SameNameAndArity(ein.q, ein.c))
        => \A v \in VarsOf(ein.q) : fv[v] = Generalized

(***************************************************************************)
(* Claims about the projection resolver (SpecValidate, SpecProj).           *)
(***************************************************************************)
\* the variables of the quantified subject type and of the implemented trait
\* type of the call of validate_and_project that returned
SubstitutedVars ==
    VarsOf(get_type(ein.world, qual_name(fv, eres[1].sub)))
        \cup (IF IsSome(eres[1].methods.impl_of)
              THEN VarsOf(Unwrap(eres[1].methods.impl_of))
              ELSE {})

\* C2: on every return of validate_and_project no free variable of the
\* quantified subject type or of the implemented trait type of the methods
\* context is still undoably linked: each successful substitute_typarams was
\* undone.
C2_ValidateAndProjectUndoesItsLinks ==
    epc = "validated" => \A v \in SubstitutedVars : ~is_undoable_linked(fv, v)

MissingTraitImpl ==
    /\ ein.lhs.k = "FreeVar"
    /\ ein.l.k = "Unbound"
    /\ qual_name(fv, ein.l.sup) \in ein.world.traits
    /\ <<qual_name(fv, ein.l.sub), qual_name(fv, ein.l.sup)>> \notin ein.world.trait_impls

MaxDepth == 3
\* the number of nested get_var_info calls the stack has room for
StackLimit == 8

\* the SharedModuleCache handle that a context may hold in mod_cache
TheCache == "mod_cache"

\* the names a checker declares, and those of them it goes on to define
VarNames == {"x", "y"}
AssignNames == {"x"}

\* Context::with_capacity
ContextNew(name, kind, outer, mod_cache) ==
    [name |-> name, kind |-> kind, outer |-> outer,
     decls |-> EmptyDict, locals |-> EmptyDict, consts |-> EmptyDict,
     mono_types |-> EmptyDict, mod_cache |-> mod_cache, tv_ctx |-> None]

\* Default for Context
ContextDefault == ContextNew("<dummy>", "Dummy", None, None)

\* Context::module
ContextModule(name, mod_cache) == ContextNew(name, "Module", None, mod_cache)

\* Context::builtin_module
builtin_module(name) == ContextModule(name, None)

\* Context::mono_class
mono_class(name, mod_cache) == ContextNew(name, "Class", None, mod_cache)

\* the VarInfo of a definition made in scope c
VarInfoIn(c) == [def |-> c.name]

\* Context::declare_var: the name is declared and not yet initialized
declare_var(c, name) == [c EXCEPT !.decls = Insert(@, name, VarInfoIn(c))]

\* Context::assign_var_sig: the name moves from decls into locals
assign_var_sig(c, name) ==
    [c EXCEPT !.decls = Delete(@, name), !.locals = Insert(@, name, VarInfoIn(c))]

\* Context::get_outer
get_outer(c) == c.outer

\* the number of contexts on the chain c, outer, ..., root
RECURSIVE Depth(_)
Depth(c) == IF IsSome(get_outer(c)) THEN 1 + Depth(Unwrap(get_outer(c))) ELSE 1

\* path that looks at the context itself and not at its outer chain
path_of_self(c) == IF c.kind = "Module" THEN c.name ELSE BUILTINS

\* Context::path
RECURSIVE path(_)
path(c) ==
    IF IsSome(get_outer(c)) THEN path(Unwrap(get_outer(c)))
    ELSE IF c.kind = "Module" THEN c.name
    ELSE BUILTINS

\* SharedModuleCache::ref_ctx(Path::new("<builtins>")) on the cache whose
\* entry at "<builtins>" is `entry`
ref_ctx(entry) == entry

\* get_builtins without the test of path()
get_builtins_unguarded(c, entry) ==
    IF IsSome(c.mod_cache)
    THEN IF IsSome(ref_ctx(entry)) THEN [panic |-> FALSE, ctx |-> ref_ctx(entry)]
         ELSE [panic |-> TRUE, ctx |-> None]
    ELSE [panic |-> FALSE, ctx |-> None]

\* Context::get_builtins; panic is the unwrap() of an absent "<builtins>" entry
get_builtins(c, entry) ==
    IF path(c) # "<builtins>"
    THEN IF IsSome(c.mod_cache)
         THEN IF IsSome(ref_ctx(entry)) THEN [panic |-> FALSE, ctx |-> ref_ctx(entry)]
              ELSE [panic |-> TRUE, ctx |-> None]
         ELSE [panic |-> FALSE, ctx |-> None]
    ELSE [panic |-> FALSE, ctx |-> None]

\* Context::grow
grow(c, name, kind, vis, tv_ctx) ==
    LET qualified == IF vis = "Public" THEN c.name \o "." \o name
                     ELSE c.name \o "::" \o name
        taken == c                       \* mem::take(self) leaves the default in self
        child == [ContextDefault EXCEPT !.outer = Some(taken)]
    IN  [child EXCEPT !.mod_cache = Unwrap(get_outer(child)).mod_cache,
                      !.tv_ctx = tv_ctx,
                      !.name = qualified,
                      !.kind = kind]

\* pop that takes the toplevel branch whatever the outer is
pop_toplevel(c) == [live |-> ContextDefault, out |-> c]

\* pop whose toplevel branch keeps the live context and returns a default
pop_noop_at_root(c) ==
    IF IsSome(c.outer)
    THEN [live |-> Unwrap(c.outer), out |-> [c EXCEPT !.outer = Some(ContextDefault)]]
    ELSE [live |-> c, out |-> ContextDefault]

\* Context::pop: the live context afterwards and the context returned
pop(c) ==
    IF IsSome(c.outer)
    THEN \* mem::take(parent) leaves Box::default() in the child's outer
         [live |-> Unwrap(c.outer), out |-> [c EXCEPT !.outer = Some(ContextDefault)]]
    ELSE \* toplevel: mem::take(self)
         [live |-> ContextDefault, out |-> c]

\* the orders in which a Dict may be iterated
Iter(d) ==
    {o \in [1..Cardinality(DOMAIN d) -> DOMAIN d] :
        \A i, j \in DOMAIN o : i # j => o[i] # o[j]}

\* Context::check_decls, iterating decls in the order `order`
check_decls(c, order) ==
    LET uninited_errs == [i \in DOMAIN order |->
                            [kind |-> "uninitialized", name |-> order[i],
                             caused_by |-> c.name]]
    IN  IF uninited_errs # <<>> THEN [ok |-> FALSE, errs |-> uninited_errs]
        ELSE [ok |-> TRUE, errs |-> <<>>]

\* check_decls_and_pop that pops without calling check_decls
check_decls_and_pop_unchecked(c, order) ==
    [ok |-> TRUE, live |-> pop(c).live, out |-> pop(c).out]

\* Context::check_decls_and_pop
check_decls_and_pop(c, order) ==
    IF ~check_decls(c, order).ok
    THEN [ok |-> FALSE, live |-> c, out |-> check_decls(c, order).errs]
    ELSE [ok |-> TRUE, live |-> pop(c).live, out |-> pop(c).out]

\* the (name, info) pairs of a Dict in the order `order`
Pairs(d, order) == [i \in DOMAIN order |-> [name |-> order[i], info |-> d[order[i]]]]

\* Context::dir: the vectors it may return (one per iteration order of the
\* Dicts), or the panic of unwrap() on an absent builtins context
RECURSIVE dir(_, _)
dir(c, entry) ==
    LET own == {Pairs(c.locals, o) : o \in Iter(c.locals)}
    IN  IF IsSome(get_outer(c))
        THEN Let(dir(Unwrap(get_outer(c)), entry),
                 LAMBDA rest : [panic |-> rest.panic,
                                vecs |-> {a \o b : a \in own, b \in rest.vecs}])
        ELSE IF get_builtins(c, entry).panic \/ ~IsSome(get_builtins(c, entry).ctx)
        THEN [panic |-> TRUE, vecs |-> {}]
        ELSE [panic |-> FALSE,
              vecs |-> {a \o Pairs(Unwrap(get_builtins(c, entry).ctx).locals, o) :
                          a \in own,
                          o \in Iter(Unwrap(get_builtins(c, entry).ctx).locals)}]

\* Context::get_local_kv
get_local_kv(c, name) ==
    IF name \in DOMAIN c.locals THEN Some([name |-> name, info |-> c.locals[name]])
    ELSE None

\* get_var_info that looks into the current scope only
get_var_info_local(c, entry, name, calls) ==
    IF IsSome(get_local_kv(c, name))
    THEN [k |-> "Ok", kv |-> Unwrap(get_local_kv(c, name)), fallbacks |-> 0]
    ELSE [k |-> "Err", kind |-> "no_var", caused_by |-> c.name, fallbacks |-> 0]

\* Context::get_var_info, as the `calls`-th nested call of one query; the
\* result carries the number of times the query fell back to builtins
RECURSIVE get_var_info(_, _, _, _)
get_var_info(c, entry, name, calls) ==
    IF calls > StackLimit THEN [k |-> "Overflow", fallbacks |-> 0]
    ELSE IF IsSome(get_local_kv(c, name))
    THEN [k |-> "Ok", kv |-> Unwrap(get_local_kv(c, name)), fallbacks |-> 0]
    ELSE IF IsSome(get_outer(c))
    THEN get_var_info(Unwrap(get_outer(c)), entry, name, calls + 1)
    ELSE IF get_builtins(c, entry).panic
    THEN [k |-> "Panic", fallbacks |-> 0]
    ELSE IF IsSome(get_builtins(c, entry).ctx)
    THEN Let(get_var_info(Unwrap(get_builtins(c, entry).ctx), entry, name, calls + 1),
             LAMBDA r : [r EXCEPT !.fallbacks = @ + 1])
    ELSE [k |-> "Err", kind |-> "no_var", caused_by |-> c.name, fallbacks |-> 0]

(***************************************************************************)
(* SpecScope: one checker grows and pops the live context, declares and    *)
(* assigns names in it, and queries it.                                    *)
(***************************************************************************)
\* the builtins scope with its definitions, as init_builtins leaves it
WithLocals(c, names) == [c EXCEPT !.locals = [n \in names |-> VarInfoIn(c)]]

\* the builtins module, built without a module cache (builtin_module) or
\* with the cache it is registered in (Context::module)
Builtins == WithLocals(builtin_module("<builtins>"), {"x", "b"})
BuiltinsWithCache == WithLocals(ContextModule("<builtins>", Some(TheCache)), {"x", "b"})

\* the contexts a checker starts from, each with what its module cache
\* holds at "<builtins>"
Roots ==
    {[live |-> ContextModule("a", Some(TheCache)), entry |-> Some(Builtins)],
     [live |-> ContextModule("a", Some(TheCache)), entry |-> Some(BuiltinsWithCache)],
     [live |-> ContextModule("a", Some(TheCache)), entry |-> None],
     [live |-> ContextModule("a", None), entry |-> Some(Builtins)],
     [live |-> mono_class("C", Some(TheCache)), entry |-> Some(Builtins)],
     [live |-> BuiltinsWithCache, entry |-> Some(BuiltinsWithCache)]}

\* the arguments of grow
GrowArgs ==
    {[name |-> "f", kind |-> "Func", vis |-> "Private", tv_ctx |-> None],
     [name |-> "m", kind |-> "Module", vis |-> "Public", tv_ctx |-> Some("tv")]}

QueryNames == {"x", "b", "z"}

SRet(op, before, out) == [op |-> op, before |-> before, out |-> out]

InitScope ==
    /\ CacheOff
    /\ fv = EmptyDict /\ epc = "off" /\ ein = None /\ eres = None
    /\ \E r \in Roots : live = r.live /\ builtins_entry = r.entry
    /\ sret = NoRet

\* self.grow(name, kind, vis, tv_ctx)
Grow(a) ==
    /\ Depth(live) < MaxDepth
    /\ live' = grow(live, a.name, a.kind, a.vis, a.tv_ctx)
    /\ sret' = SRet("grow", live, a)
    /\ UNCHANGED <<builtins_entry, cacheVars, evalVars>>

\* self.pop()
Pop ==
    /\ live' = pop(live).live
    /\ sret' = SRet("pop", live, pop(live).out)
    /\ UNCHANGED <<builtins_entry, cacheVars, evalVars>>

\* self.check_decls_and_pop()
CheckDeclsAndPop ==
    /\ \E order \in Iter(live.decls) :
        /\ live' = check_decls_and_pop(live, order).live
        /\ sret' = SRet(IF check_decls_and_pop(live, order).ok
                        THEN "check_decls_and_pop:Ok" ELSE "check_decls_and_pop:Err",
                        live, check_decls_and_pop(live, order).out)
    /\ UNCHANGED <<builtins_entry, cacheVars, evalVars>>

\* self.declare_var(name)
DeclareVar(name) ==
    /\ name \notin DOMAIN live.decls \cup DOMAIN live.locals
    /\ live' = declare_var(live, name)
    /\ sret' = SRet("declare_var", live, name)
    /\ UNCHANGED <<builtins_entry, cacheVars, evalVars>>

\* self.assign_var_sig(name)
AssignVar(name) ==
    /\ name \notin DOMAIN live.locals
    /\ live' = assign_var_sig(live, name)
    /\ sret' = SRet("assign_var_sig", live, name)
    /\ UNCHANGED <<builtins_entry, cacheVars, evalVars>>

\* self.get_var_info(name)
GetVarInfo(name) ==
    /\ sret' = SRet("get_var_info", name, get_var_info(live, builtins_entry, name, 1))
    /\ UNCHANGED <<live, builtins_entry, cacheVars, evalVars>>

\* self.dir()
Dir ==
    /\ \E out \in (IF dir(live, builtins_entry).panic THEN {[k |-> "Panic"]}
                   ELSE {[k |-> "Ok", vars |-> v] : v \in dir(live, builtins_entry).vecs}) :
           sret' = SRet("dir", None, out)
    /\ UNCHANGED <<live, builtins_entry, cacheVars, evalVars>>

\* self.path()
Path ==
    /\ sret' = SRet("path", None, path(live))
    /\ UNCHANGED <<live, builtins_entry, cacheVars, evalVars>>

NextScope ==
    \/ \E a \in GrowArgs : Grow(a)
    \/ Pop
    \/ CheckDeclsAndPop
    \/ \E name \in VarNames : DeclareVar(name)
    \/ \E name \in AssignNames : AssignVar(name)
    \/ \E name \in QueryNames : GetVarInfo(name)
    \/ Dir
    \/ Path

SpecScope == InitScope /\ [][NextScope]_vars

(***************************************************************************)
(* C11: a lookup on the shared cache (get, get_mut, get_ctx, ref_ctx)      *)
(* returns a view of the entry or returns absent and never panics, also    *)
(* when another session removes or renames the path between the lookup's   *)
(* existence test and its acquisition of the mapped guard.                 *)
(***************************************************************************)
C11_LookupNeverPanics ==
    \A s \in Sessions : pc[s] # "panicked"

(***************************************************************************)
(* C12: grow(name, kind, vis, tv) followed immediately by pop() leaves the *)
(* live context structurally equal to the live context before grow, and    *)
(* pop returns the child that grow installed.                              *)
(***************************************************************************)
\* as stated: the returned context is the child as grow left it
C12_GrowPopReturnsChild ==
    [][(sret.op = "grow" /\ sret'.op = "pop")
          => (live' = sret.before /\ sret'.out = live)]_vars

\* C12 as the code has it: the live context is the one before grow, and
\* the returned context is the child with a default context as its outer
C12_GrowPopRestoresLive ==
    [][(sret.op = "grow" /\ sret'.op = "pop")
          => (/\ live' = sret.before
              /\ sret'.out = [live EXCEPT !.outer = Some(ContextDefault)])]_vars

\* a child grown on a nested scope that holds a definition was popped
C12_Witness ==
    /\ sret.op = "pop"
    /\ IsSome(sret.before.outer)
    /\ sret.before.kind = "Module"
    /\ sret.before.tv_ctx = Some("tv")
    /\ live = Unwrap(sret.before.outer)
    /\ IsSome(live.outer)
    /\ "x" \in DOMAIN live.locals
    /\ "y" \in DOMAIN live.decls

(***************************************************************************)
(* C13: pop() on a context that has no outer leaves the live context       *)
(* unchanged and returns a fresh default (empty) context.                  *)
(***************************************************************************)
\* as stated: the live root stays and a default context is returned
C13_PopAtRootIsNoOp ==
    (sret.op = "pop" /\ ~IsSome(sret.before.outer))
        => (live = sret.before /\ sret.out = ContextDefault)

\* C13 as the code has it: pop() on a context that has no outer returns
\* that context and leaves a fresh default context as the live context
C13_PopAtRootTakesLive ==
    (sret.op = "pop" /\ ~IsSome(sret.before.outer))
        => (live = ContextDefault /\ sret.out = sret.before)

\* a module context that holds a definition was popped at the top level
C13_Witness ==
    /\ sret.op = "pop"
    /\ ~IsSome(sret.before.outer)
    /\ sret.before.kind = "Module"
    /\ "x" \in DOMAIN sret.before.locals
    /\ sret.out = sret.before
    /\ live = ContextDefault

(***************************************************************************)
(* C14: check_decls_and_pop on a context whose decls holds n > 0 names     *)
(* returns exactly n uninitialized-declaration errors, one per name, and   *)
(* leaves the live context (and its outer chain) as it was; only when      *)
(* decls is empty does it pop and return the child.                        *)
(***************************************************************************)
C14_CheckDeclsAndPop ==
    /\ sret.op = "check_decls_and_pop:Err" =>
         /\ DOMAIN sret.before.decls # {}
         /\ Len(sret.out) = Cardinality(DOMAIN sret.before.decls)
         /\ {sret.out[i].name : i \in DOMAIN sret.out} = DOMAIN sret.before.decls
         /\ \A i \in DOMAIN sret.out : sret.out[i].kind = "uninitialized"
         /\ live = sret.before
    /\ sret.op = "check_decls_and_pop:Ok" =>
         /\ DOMAIN sret.before.decls = {}
         /\ IsSome(sret.before.outer) =>
              /\ live = Unwrap(sret.before.outer)
              /\ sret.out = [sret.before EXCEPT !.outer = Some(ContextDefault)]

\* a nested scope with two uninitialized names was checked
C14_Witness ==
    /\ sret.op = "check_decls_and_pop:Err"
    /\ Len(sret.out) = 2
    /\ IsSome(live.outer)
    /\ "x" \in DOMAIN Unwrap(live.outer).locals

\* the scopes current, outer, ..., root of a context, innermost first
RECURSIVE Chain(_)
Chain(c) == IF IsSome(c.outer) THEN <<c>> \o Chain(Unwrap(c.outer)) ELSE <<c>>

\* the positions on the chain of the live context whose scope defines name
Defining(name) ==
    {i \in DOMAIN Chain(live) : name \in DOMAIN Chain(live)[i].locals}

Min(S) == CHOOSE i \in S : \A j \in S : i <= j

(***************************************************************************)
(* C15: get_var_info(name) returns the binding of the innermost scope on   *)
(* the chain current, outer, ..., root that defines name, and returns the  *)
(* builtins binding only when no scope on that chain defines name.         *)
(***************************************************************************)
C15_InnermostScopeShadows ==
    sret.op = "get_var_info" =>
        /\ Defining(sret.before) # {} =>
             /\ sret.out.k = "Ok"
             /\ sret.out.fallbacks = 0
             /\ sret.out.kv =
                  [name |-> sret.before,
                   info |-> Chain(live)[Min(Defining(sret.before))].locals[sret.before]]
        /\ (sret.out.k = "Ok" /\ sret.out.fallbacks > 0) =>
             /\ Defining(sret.before) = {}
             /\ sret.out.kv = [name |-> sret.before,
                               info |-> Unwrap(builtins_entry).locals[sret.before]]

\* x is defined in the current scope, in its outer scope and in builtins,
\* and the lookup returned the binding of the current scope
C15_Witness ==
    /\ sret.op = "get_var_info"
    /\ sret.before = "x"
    /\ IsSome(live.outer)
    /\ "x" \in DOMAIN live.locals
    /\ "x" \in DOMAIN Unwrap(live.outer).locals
    /\ IsSome(builtins_entry)
    /\ sret.out.k = "Ok"
    /\ sret.out.kv.info = VarInfoIn(live)

(***************************************************************************)
(* C16: get_var_info terminates on every finite scope chain: one query     *)
(* falls back to the builtins context at most once, and a lookup that runs *)
(* in a context whose path is the builtins sentinel never falls back.      *)
(***************************************************************************)
C16_FallsBackAtMostOnce ==
    sret.op = "get_var_info" =>
        /\ sret.out.k # "Overflow"
        /\ sret.out.fallbacks <= 1
        /\ path(live) = "<builtins>" => sret.out.fallbacks = 0

\* the query missed in a nested scope and in a builtins context that holds
\* the module cache it is registered in
C16_Witness ==
    /\ sret.op = "get_var_info"
    /\ IsSome(live.outer)
    /\ builtins_entry = Some(BuiltinsWithCache)
    /\ sret.out.k = "Err"
    /\ sret.out.fallbacks = 1

(***************************************************************************)
(* C17: when a name is defined in no traversed scope and not in builtins,  *)
(* get_var_info fails with a no-such-variable error value, for every       *)
(* context, also one whose module cache has no entry at the builtins       *)
(* sentinel path; the lookup does not panic.                               *)
(***************************************************************************)
C17_UndefinedNameIsNoVarError ==
    (/\ sret.op = "get_var_info"
     /\ Defining(sret.before) = {}
     /\ IsSome(builtins_entry) => sret.before \notin DOMAIN Unwrap(builtins_entry).locals)
        => (sret.out.k = "Err" /\ sret.out.kind = "no_var")

(***************************************************************************)
(* C18: dir() returns the locals of the current scope first, then the      *)
(* locals of each outer scope from innermost to outermost, then the        *)
(* builtins locals exactly once after the root's locals.                   *)
(***************************************************************************)
\* the names of v[from..], scope by scope along the chain, then builtins
RECURSIVE ScopeByScope(_, _, _)
ScopeByScope(v, from, i) ==
    IF i > Len(Chain(live))
    THEN /\ IsSome(builtins_entry)
         /\ Len(v) - from + 1 = Cardinality(DOMAIN Unwrap(builtins_entry).locals)
         /\ {v[j] : j \in from..Len(v)}
              = {[name |-> n, info |-> Unwrap(builtins_entry).locals[n]] :
                    n \in DOMAIN Unwrap(builtins_entry).locals}
    ELSE LET n == Cardinality(DOMAIN Chain(live)[i].locals)
         IN  /\ from + n - 1 <= Len(v)
             /\ {v[j] : j \in from..(from + n - 1)}
                  = {[name |-> x, info |-> Chain(live)[i].locals[x]] :
                        x \in DOMAIN Chain(live)[i].locals}
             /\ ScopeByScope(v, from + n, i + 1)

C18_DirInnermostFirstThenBuiltins ==
    sret.op = "dir" => (sret.out.k = "Ok" /\ ScopeByScope(sret.out.vars, 1, 1))

(***************************************************************************)
(* C19: path() of a context is the name of the outermost Module-kind       *)
(* context on its outer chain (itself included), and is the builtins       *)
(* sentinel path only when no context on that chain has kind Module.       *)
(***************************************************************************)
Max(S) == CHOOSE i \in S : \A j \in S : j <= i

ModulesOnChain == {i \in DOMAIN Chain(live) : Chain(live)[i].kind = "Module"}

\* as stated: the outermost Module-kind context of the chain names the path
C19_PathIsOutermostModule ==
    sret.op = "path" =>
        sret.out = IF ModulesOnChain # {} THEN Chain(live)[Max(ModulesOnChain)].name
                   ELSE "<builtins>"

\* C19 as the code has it: path() is the name of the root of the outer
\* chain when the root has kind Module, and the builtins sentinel path
\* otherwise, whatever the kinds of the inner contexts
C19_PathIsRootModule ==
    sret.op = "path" =>
        sret.out = IF Chain(live)[Len(Chain(live))].kind = "Module"
                   THEN Chain(live)[Len(Chain(live))].name
                   ELSE "<builtins>"

\* the path of a Module-kind scope nested in a root of kind Class was asked
C19_Witness ==
    /\ sret.op = "path"
    /\ IsSome(live.outer)
    /\ live.kind = "Module"
    /\ Chain(live)[Len(Chain(live))].kind = "Class"
    /\ sret.out = "<builtins>"

(***************************************************************************)
(* C20: eval_proj applied to Never or to Failure returns that same type    *)
(* unchanged, links no variable and reports no error.                      *)
(***************************************************************************)
C20_NeverAndFailureAbsorb ==
    (epc \in {"once", "twice"} /\ ein.lhs \in {Never, Failure}) =>
        /\ \A i \in DOMAIN eres : Res(i) = [ok |-> TRUE, val |-> ein.lhs]
        /\ fv = [v \in QuantVars \cup {"L"} |-> IF v = "L" THEN ein.l ELSE Generalized]

\* eval_proj(Failure, "Output") has returned in a world whose contexts
\* hold candidates for Output
C20_Witness ==
    /\ epc = "once"
    /\ ein.lhs = Failure
    /\ ein.world.types["F"].methods_list # <<>>
    /\ eres[1].val = Failure

\* the variable store that InitProj sets up for the arguments in ein
InitialStore == [v \in QuantVars \cup {"L"} |-> IF v = "L" THEN ein.l ELSE Generalized]

\* the request is on the variable L, unbound when the first call starts
OnUnboundL == ein.lhs = FreeVar("L") /\ ein.l.k = "Unbound"

(***************************************************************************)
(* C21: eval_proj on an unbound free variable whose lower bound is exactly *)
(* Never succeeds with the projection lhs.attr unevaluated and leaves the  *)
(* variable unbound and unlinked.                                          *)
(***************************************************************************)
C21_LowerBoundNeverStaysUnevaluated ==
    (epc \in {"once", "twice"} /\ OnUnboundL /\ ein.l.sub = Never) =>
        /\ \A i \in DOMAIN eres :
              Res(i) = [ok |-> TRUE, val |-> Proj(FreeVar("L"), ein.rhs)]
        /\ fv = InitialStore
        /\ is_unbound(fv, "L")

\* the variable is bounded above by the trait Add(Int), for which candidates
\* and implementation facts exist, and both calls have returned
C21_Witness ==
    /\ epc = "twice"
    /\ OnUnboundL
    /\ ein.l.sub = Never
    /\ ein.l.sup = AddInt
    /\ ein.world.types["F"].methods_list # <<>>
    /\ eres[2].val = Proj(FreeVar("L"), "Output")

\* the subject and the constraint that the first call of eval_proj works on
SubjectOf == IF OnUnboundL THEN ein.l.sub ELSE ein.lhs
OptSupOf == IF OnUnboundL THEN Some(ein.l.sup) ELSE None
ConstraintOf == IF OnUnboundL THEN ein.l.sup ELSE ein.lhs

\* the pairs of a methods list that are not skipped, in their order
Fitting(methods_list) ==
    SelectSeq(methods_list,
              LAMBDA m : \/ m.class.k # "ImplTrait"
                         \/ supertype_of(ein.world, InitialStore, m.class.impl_trait,
                                         ConstraintOf))

\* the candidates of the type contexts from the i-th on: each context, then
\* the methods contexts of its pairs
RECURSIVE CandidatesFrom(_, _)
CandidatesFrom(ty_ctxs, i) ==
    IF i > Len(ty_ctxs) THEN <<>>
    ELSE <<ty_ctxs[i]>>
         \o [j \in DOMAIN Fitting(ty_ctxs[i].methods_list) |->
                Fitting(ty_ctxs[i].methods_list)[j].methods]
         \o CandidatesFrom(ty_ctxs, i + 1)

\* the candidates of the request in the order of the claim
OrderedCandidates ==
    (IF IsSome(get_same_name_context(ein.world, qual_name(InitialStore, SubjectOf)))
     THEN <<Unwrap(get_same_name_context(ein.world, qual_name(InitialStore, SubjectOf)))>>
     ELSE <<>>)
    \o (IF IsSome(get_nominal_super_type_ctxs(ein.world, InitialStore, SubjectOf))
        THEN CandidatesFrom(Unwrap(get_nominal_super_type_ctxs(ein.world, InitialStore,
                                                                  SubjectOf)), 1)
        ELSE <<>>)

\* what the i-th candidate yields for the request
Yield(i) ==
    validate_and_project(ein.world, InitialStore, SubjectOf, OptSupOf, ein.rhs,
                         OrderedCandidates[i]).out

Yielding == {i \in DOMAIN OrderedCandidates : IsSome(Yield(i))}

\* the request reaches the search: the subject is a type with a name
SearchesCandidates ==
    /\ ein.lhs.k \notin {"Never", "Failure"}
    /\ ~(ein.lhs.k = "FreeVar" /\ ein.l.k # "Unbound")
    /\ SubjectOf # Never

(***************************************************************************)
(* C22: eval_proj tries the candidate contexts in a fixed order and        *)
(* returns what the first one that yields a type yields: the context       *)
(* registered under the subject's own qualified name, then each nominal    *)
(* supertype context in registration order and within each its (trait,     *)
(* methods) pairs in order, without the pairs whose trait is not a         *)
(* supertype of the constraint (the upper bound, or the subject itself).   *)
(***************************************************************************)
C22_FirstYieldingCandidateWins ==
    (epc \in {"once", "twice"} /\ SearchesCandidates /\ Yielding # {}) =>
        Res(1) = [ok |-> TRUE, val |-> Unwrap(Yield(Min(Yielding)))]

\* the subject F(Int) has the pairs (Eq, ..) and (Add(M), ..): the first is
\* skipped, the second yields, and the super class Base would yield as well
C22_Witness ==
    /\ epc = "once"
    /\ ein.lhs = Poly("F", <<TpType(Mono("Int"))>>)
    /\ Len(ein.world.types["F"].methods_list) = 2
    /\ ein.world.types["F"].methods_list[1] = ImplEq
    /\ Len(Fitting(ein.world.types["F"].methods_list)) = 1
    /\ Cardinality(Yielding) = 2
    /\ eres[1].ok
    /\ eres[1].val.k = "Poly"

\* the upper bound of L is a trait that no fact registers for its lower bound
NoImplForBounds ==
    /\ OnUnboundL
    /\ is_trait(ein.world, InitialStore, ein.l.sup)
    /\ ~trait_impl_exists(ein.world, InitialStore, ein.l.sub, ein.l.sup)

NoTraitImplError == [ok |-> FALSE, val |-> [k |-> "Err", kind |-> "no_trait_impl"]]

SearchFindsNothing ==
    /\ SearchesCandidates
    /\ IsSome(get_nominal_super_type_ctxs(ein.world, InitialStore, SubjectOf))
    /\ Yielding = {}
    /\ ~NoImplForBounds

\* what eval_proj returns for the subject's lower bound in place of the subject
OnLowerBound == eval_proj(ein.world, InitialStore, ein.l.sub, ein.rhs)

NoCandidateError == [ok |-> FALSE, val |-> [k |-> "Err", kind |-> "no_candidate"]]

Mismatch(q, c) ==
    \/ qual_name(InitialStore, q) # qual_name(InitialStore, c)
    \/ Len(typarams(InitialStore, q)) # Len(typarams(InitialStore, c))

\* the substitution of the parameters of c for those of q, one by one
Zipped(q, c) ==
    substitute_zip(InitialStore, typarams(InitialStore, q), typarams(InitialStore, c), 1)

(***************************************************************************)
(* C25: substitute_typarams(q, c) with q and c differing in qualified name *)
(* or in number of type parameters: when c is a variable with a lower      *)
(* bound the call does what it does for that bound in place of c (the      *)
(* pairwise substitution when the bound is an instance of q, success       *)
(* without any link otherwise); when c has no lower bound it succeeds and  *)
(* links no variable.  An error comes only from the pairwise substitution. *)
(***************************************************************************)
C25_MismatchRetriesOnLowerBound ==
    (epc = "substituted" /\ Mismatch(ein.q, ein.c)) =>
        IF ein.c.k = "FreeVar" /\ ~Mismatch(ein.q, ein.l.sub)
        THEN /\ eres = Some(Zipped(ein.q, ein.l.sub).ok)
             /\ fv = Zipped(ein.q, ein.l.sub).store
        ELSE /\ eres = Some(TRUE)
             /\ fv = InitialStore

\* L has the lower bound F(Int, 3), an instance of q = F(T, N): T and N are
\* linked through the bound
C25_Witness ==
    /\ epc = "substituted"
    /\ ein.c = FreeVar("L")
    /\ ein.l.sub = Poly("F", <<TpType(Mono("Int")), TpValue(VNat(3))>>)
    /\ ein.q = Poly("F", <<TpType(FreeVar("T")), TpFreeVar("N")>>)
    /\ eres = Some(TRUE)
    /\ is_linked(fv, "T")
    /\ is_linked(fv, "N")


(***************************************************************************)
(* C26: detach(T) returns a copy of T in which no variable of the graph    *)
(* that T was built on occurs, whatever the shape of T: polymorphic,       *)
(* subroutine, reference, union, intersection, and every form of type      *)
(* parameter.                                                              *)
(***************************************************************************)
C26_DetachLeavesNoOriginalVariable ==
    epc = "detached" => VarsOf(Unwrap(eres)) = {}

\* what holds in the code: the variables are replaced in a type that is a
\* variable or a polymorphic type whose parameters are variables or types
C26_DetachReplacesInPolyOfTypes ==
    (/\ epc = "detached"
     /\ \/ ein.ty.k \in {"FreeVar", "Mono"}
        \/ /\ ein.ty.k = "Poly"
           /\ \A i \in DOMAIN ein.ty.params : ein.ty.params[i].k \in {"TpFreeVar", "TpType"})
    => VarsOf(Unwrap(eres)) = {}


\* the implementation states Output = Array(T, N + N)
StatesNPlusN ==
    ein.world.types["Array"].methods_list[1].methods.consts["Output"].t.params[2] = NPlusN

(***************************************************************************)
(* C27: projecting Output on Array(t, n) through the implementation of     *)
(* Array(T, N) that states Output = Array(T, N + N) resolves to            *)
(* Array(t, n + n); after the call T and N are unbound again, and the      *)
(* returned type holds no variable, so it reads the same after the undo.   *)
(***************************************************************************)
C27_ArrayOutputIsEvaluatedAndKept ==
    (epc \in {"once", "twice"} /\ StatesNPlusN) =>
        /\ \A i \in DOMAIN eres :
              /\ Res(i) = [ok |-> TRUE,
                           val |-> Poly("Array", <<ein.lhs.params[1],
                                                   TpValue(VNat(2 * ein.lhs.params[2].v.n))>>)]
              /\ VarsOf(eres[i].val) = {}
        /\ fv["T"] = Generalized
        /\ fv["N"] = Generalized

\* Array(Int, 3) resolves to Array(Int, 6)
C27_Witness ==
    /\ epc = "once"
    /\ StatesNPlusN
    /\ ein.lhs = Poly("Array", <<TpType(Mono("Int")), TpValue(VNat(3))>>)
    /\ eres[1].val = Poly("Array", <<TpType(Mono("Int")), TpValue(VNat(6))>>)
    /\ is_unbound(fv, "T")
    /\ is_unbound(fv, "N")


(***************************************************************************)
(* The constant expression evaluator.  An expression is evaluated against  *)
(* a scope context; the functions that take `&mut self` return the context *)
(* they leave.                                                             *)
(***************************************************************************)
\* Expr
Literal(v) == [k |-> "Literal", v |-> v]
Ident(name, is_const) == [k |-> "Ident", name |-> name, is_const |-> is_const]
BinOp(op, lhs, rhs) == [k |-> "BinOp", op |-> op, args |-> <<lhs, rhs>>]
UnaryOp(op, arg) == [k |-> "UnaryOp", op |-> op, args |-> <<arg>>]
Call(name, pos_args, kw_args) ==
    [k |-> "Call", name |-> name, pos_args |-> pos_args, kw_args |-> kw_args]
Def(name, is_const, block) ==
    [k |-> "Def", name |-> name, is_const |-> is_const, block |-> block]
KwArg(keyword, expr) == [keyword |-> keyword, expr |-> expr]

\* a record literal with its attributes (name and body) and a lambda with its
\* parameters (the default ones with their default value) and its body
Record(attrs) == [k |-> "Record", attrs |-> attrs]
Attr(name, block) == [name |-> name, block |-> block]
Lambda(non_defaults, defaults, body) ==
    [k |-> "Lambda", non_defaults |-> non_defaults, defaults |-> defaults, body |-> body]
DefaultParam(name, default_val) == [name |-> name, default_val |-> default_val]

\* ValueObj::Record
VRecord(attrs) == [k |-> "VRecord", attrs |-> attrs]

\* ValueObj::None and ValueObj::Subr(ConstSubr::User(..))
VNone == [k |-> "VNone"]
VSubr(name, non_defaults, defaults, block) ==
    [k |-> "VSubr", name |-> name, non_defaults |-> non_defaults, defaults |-> defaults,
     block |-> block]

\* ValueArgs
ValueArgs(pos_args, kw_args) == [pos_args |-> pos_args, kw_args |-> kw_args]

\* EvalResult<ValueObj>, with the context that is left and, for a block, the
\* chunks that were evaluated
EvalOk(val, ctx) == [ok |-> TRUE, val |-> val, ctx |-> ctx, trace |-> <<>>]
EvalErr(kind, ctx) == [ok |-> FALSE, val |-> EvalError(kind), ctx |-> ctx, trace |-> <<>>]
FromValue(v, ctx) == [ok |-> v.k # "Err", val |-> v, ctx |-> ctx, trace |-> <<>>]

\* the operator tokens: those of the table, and one of the others
OpTokens ==
    { "Plus", "Minus", "Star", "Slash", "FloorDiv", "Pow", "Mod", "DblEq", "NotEq",
      "Less", "Gre", "LessEq", "GreEq", "AndOp", "OrOp", "BitAnd", "BitXor", "BitOr",
      "Shl", "Shr", "PrePlus", "PreMinus", "PreBitNot" }

\* Context::try_get_op_kind_from_token
try_get_op_kind_from_token(token) ==
    CASE token = "Plus" -> Some("Add")
      [] token = "Minus" -> Some("Sub")
      [] token = "Star" -> Some("Mul")
      [] token = "Slash" -> Some("Div")
      [] token = "FloorDiv" -> Some("FloorDiv")
      [] token = "Pow" -> Some("Pow")
      [] token = "Mod" -> Some("Mod")
      [] token = "DblEq" -> Some("Eq")
      [] token = "NotEq" -> Some("Ne")
      [] token = "Less" -> Some("Lt")
      [] token = "Gre" -> Some("Gt")
      [] token = "LessEq" -> Some("Le")
      [] token = "GreEq" -> Some("Ge")
      [] token = "AndOp" -> Some("And")
      [] token = "OrOp" -> Some("Or")
      [] token = "BitAnd" -> Some("BitAnd")
      [] token = "BitXor" -> Some("BitXor")
      [] token = "BitOr" -> Some("BitOr")
      [] token = "Shl" -> Some("Shl")
      [] token = "Shr" -> Some("Shr")
      [] token = "PrePlus" -> Some("Pos")
      [] token = "PreMinus" -> Some("Neg")
      [] token = "PreBitNot" -> Some("Invert")
      [] OTHER -> None

\* Context::instant
instant(name, outer) == ContextNew(name, "Instant", Some(outer), outer.mod_cache)

\* ContextKind::is_subr
is_subr(kind) == kind \in {"Func", "Proc"}

\* Context::rec_get_const_obj
RECURSIVE rec_get_const_obj(_, _)
rec_get_const_obj(c, name) ==
    IF name \in DOMAIN c.consts THEN Some(c.consts[name])
    ELSE IF IsSome(get_outer(c)) THEN rec_get_const_obj(Unwrap(get_outer(c)), name)
    ELSE None

\* Context::register_gen_const
register_gen_const(c, name, obj) == [c EXCEPT !.consts = Insert(@, name, obj)]

\* Context::eval_const_ident
eval_const_ident(c, ident) ==
    IF IsSome(rec_get_const_obj(c, ident.name))
    THEN EvalOk(Unwrap(rec_get_const_obj(c, ident.name)), c)
    ELSE IF is_subr(c.kind) THEN EvalErr("feature", c)
    ELSE IF ident.is_const THEN EvalErr("no_var", c)
    ELSE EvalErr("not_const_expr", c)

\* Context::call, the two loops that bind the arguments in the new scope
RECURSIVE bind_pos_args(_, _, _, _)
bind_pos_args(subr_ctx, pos_args, non_defaults, i) ==
    IF i > Len(pos_args) \/ i > Len(non_defaults) THEN subr_ctx
    ELSE bind_pos_args([subr_ctx EXCEPT !.consts = Insert(@, non_defaults[i], pos_args[i])],
                       pos_args, non_defaults, i + 1)

RECURSIVE bind_kw_args(_, _, _)
bind_kw_args(subr_ctx, kw_args, i) ==
    IF i > Len(kw_args) THEN subr_ctx
    ELSE bind_kw_args([subr_ctx EXCEPT !.consts = Insert(@, kw_args[i].keyword, kw_args[i].val)],
                      kw_args, i + 1)

RECURSIVE eval_const_expr(_, _)
RECURSIVE eval_const_chunk(_, _)
RECURSIVE eval_const_block(_, _)
RECURSIVE eval_chunks(_, _, _, _)
RECURSIVE eval_const_def(_, _)
RECURSIVE eval_const_bin(_, _)
RECURSIVE eval_const_unary(_, _)
RECURSIVE eval_const_call(_, _)
RECURSIVE eval_pos_args(_, _, _, _)
RECURSIVE eval_kw_args(_, _, _, _)
RECURSIVE call(_, _, _)

\* Context::eval_const_bin
eval_const_bin(c, bin) ==
    Let(eval_const_expr(c, bin.args[1]), LAMBDA lhs :
      IF ~lhs.ok THEN lhs
      ELSE Let(eval_const_expr(c, bin.args[2]), LAMBDA rhs :
        IF ~rhs.ok THEN rhs
        ELSE IF ~IsSome(try_get_op_kind_from_token(bin.op)) THEN EvalErr("not_const_expr", c)
        ELSE FromValue(eval_bin(Unwrap(try_get_op_kind_from_token(bin.op)), lhs.val, rhs.val),
                       c)))

\* Context::eval_const_unary
eval_const_unary(c, unary) ==
    Let(eval_const_expr(c, unary.args[1]), LAMBDA val :
      IF ~val.ok THEN val
      ELSE IF ~IsSome(try_get_op_kind_from_token(unary.op)) THEN EvalErr("not_const_expr", c)
      ELSE FromValue(eval_unary_val(Unwrap(try_get_op_kind_from_token(unary.op)), val.val), c))

\* Context::eval_args, the loop over the positional arguments
eval_pos_args(c, pos_args, i, evaluated) ==
    IF i > Len(pos_args) THEN EvalOk(evaluated, c)
    ELSE Let(eval_const_expr(c, pos_args[i]), LAMBDA val :
           IF ~val.ok THEN val
           ELSE eval_pos_args(c, pos_args, i + 1, Append(evaluated, val.val)))

\* Context::eval_args, the loop over the keyword arguments
eval_kw_args(c, kw_args, i, evaluated) ==
    IF i > Len(kw_args) THEN EvalOk(evaluated, c)
    ELSE Let(eval_const_expr(c, kw_args[i].expr), LAMBDA val :
           IF ~val.ok THEN val
           ELSE eval_kw_args(c, kw_args, i + 1,
                             Append(evaluated, [keyword |-> kw_args[i].keyword,
                                                val |-> val.val])))

\* call that binds the arguments and evaluates the body in the caller
call_in_caller(c, user, args) ==
    Let(bind_kw_args(bind_pos_args(c, args.pos_args, user.non_defaults, 1),
                     args.kw_args, 1), LAMBDA subr_ctx :
      Let(eval_const_block(subr_ctx, user.block), LAMBDA r : [r EXCEPT !.trace = <<>>]))

\* Context::call for ConstSubr::User
call(c, user, args) ==
    Let(bind_kw_args(bind_pos_args(instant(user.name, c), args.pos_args,
                                   user.non_defaults, 1),
                     args.kw_args, 1), LAMBDA subr_ctx :
      Let(eval_const_block(subr_ctx, user.block), LAMBDA r :
        [r EXCEPT !.ctx = c, !.trace = <<>>]))

\* Context::eval_const_call on an identifier
eval_const_call(c, e) ==
    IF ~IsSome(rec_get_const_obj(c, e.name)) THEN EvalErr("no_var", c)
    ELSE IF Unwrap(rec_get_const_obj(c, e.name)).k # "VSubr" THEN EvalErr("type_mismatch", c)
    ELSE Let(eval_pos_args(c, e.pos_args, 1, <<>>), LAMBDA pos :
           IF ~pos.ok THEN pos
           ELSE Let(eval_kw_args(c, e.kw_args, 1, <<>>), LAMBDA kw :
             IF ~kw.ok THEN kw
             ELSE call(c, Unwrap(rec_get_const_obj(c, e.name)), ValueArgs(pos.val, kw.val))))

\* Context::eval_const_normal_record, the loop over the attributes: every
\* body is evaluated in record_ctx, which the bodies before it have changed
RECURSIVE eval_attrs(_, _, _, _, _)
eval_attrs(c, record_ctx, attrs, i, evaluated) ==
    IF i > Len(attrs) THEN EvalOk(VRecord(evaluated), c)
    ELSE Let(eval_const_block(record_ctx, attrs[i].block), LAMBDA elem :
           IF ~elem.ok THEN [elem EXCEPT !.ctx = c, !.trace = <<>>]
           ELSE eval_attrs(c, elem.ctx, attrs, i + 1,
                           Insert(evaluated, attrs[i].name, elem.val)))

\* Context::eval_const_normal_record
eval_const_normal_record(c, record) ==
    eval_attrs(c, instant("<unnamed record>", c), record.attrs, 1, EmptyDict)

\* Context::eval_const_lambda, the loop over the default parameters
RECURSIVE eval_defaults(_, _, _)
eval_defaults(c, defaults, i) ==
    IF i > Len(defaults) THEN EvalOk(VNone, c)
    ELSE Let(eval_const_expr(c, defaults[i].default_val), LAMBDA expr :
           IF ~expr.ok THEN expr ELSE eval_defaults(c, defaults, i + 1))

\* Context::eval_const_lambda, without the types of the parameters
eval_const_lambda(c, lambda) ==
    Let(eval_defaults(c, lambda.defaults, 1), LAMBDA ds :
      IF ~ds.ok THEN ds
      ELSE Let(eval_const_block(instant("<lambda>", c), lambda.body), LAMBDA ret_val :
        IF ~ret_val.ok THEN [ret_val EXCEPT !.ctx = c, !.trace = <<>>]
        ELSE EvalOk(VSubr("<lambda>", lambda.non_defaults,
                          [j \in DOMAIN lambda.defaults |-> lambda.defaults[j].name],
                          lambda.body), c)))

\* Context::eval_const_expr
eval_const_expr(c, expr) ==
    CASE expr.k = "Literal" -> EvalOk(expr.v, c)
      [] expr.k = "Ident" -> eval_const_ident(c, expr)
      [] expr.k = "BinOp" -> eval_const_bin(c, expr)
      [] expr.k = "UnaryOp" -> eval_const_unary(c, expr)
      [] expr.k = "Call" -> eval_const_call(c, expr)
      [] expr.k = "Record" -> eval_const_normal_record(c, expr)
      [] expr.k = "Lambda" -> eval_const_lambda(c, expr)
      [] OTHER -> EvalErr("not_const_expr", c)

\* eval_const_def that leaves the constant unregistered
eval_const_def_unregistered(c, def) ==
    IF ~def.is_const THEN EvalErr("not_const_expr", c)
    ELSE Let(eval_const_block(grow(c, def.name, "Instant", "Private", None), def.block),
             LAMBDA obj :
               IF ~obj.ok THEN [obj EXCEPT !.ctx = pop(obj.ctx).live, !.trace = <<>>]
               ELSE EvalOk(VNone, pop(obj.ctx).live))

\* eval_const_def that leaves the scope of a failed body unpopped
eval_const_def_unpopped(c, def) ==
    IF ~def.is_const THEN EvalErr("not_const_expr", c)
    ELSE
      Let(eval_const_block(grow(c, def.name, "Instant", "Private", None), def.block),
          LAMBDA obj :
        IF ~obj.ok THEN [obj EXCEPT !.trace = <<>>]
        ELSE EvalOk(VNone, register_gen_const(pop(obj.ctx).live, def.name, obj.val)))

\* Context::eval_const_def
eval_const_def(c, def) ==
    IF ~def.is_const THEN EvalErr("not_const_expr", c)
    ELSE
      Let(eval_const_block(grow(c, def.name, "Instant", "Private", None), def.block),
          LAMBDA obj :
        IF ~obj.ok THEN [obj EXCEPT !.ctx = pop(obj.ctx).live, !.trace = <<>>]
        ELSE
          Let(check_decls_and_pop(obj.ctx, CHOOSE o \in Iter(obj.ctx.decls) : TRUE),
              LAMBDA popped :
            Let(register_gen_const(popped.live, def.name, obj.val), LAMBDA registered :
              IF popped.ok THEN EvalOk(VNone, registered)
              ELSE EvalErr("uninitialized", registered))))

\* Context::eval_const_chunk
eval_const_chunk(c, expr) ==
    IF expr.k = "Def" THEN eval_const_def(c, expr) ELSE eval_const_expr(c, expr)

\* eval_const_block that goes on after a chunk that failed
eval_chunks_unstopped(c, block, i, trace) ==
    Let(eval_const_chunk(c, block[i]), LAMBDA r :
      IF i = Len(block) THEN [r EXCEPT !.trace = Append(trace, i)]
      ELSE eval_chunks(r.ctx, block, i + 1, Append(trace, i)))

\* Context::eval_const_block: the chunks from the i-th on
eval_chunks(c, block, i, trace) ==
    Let(eval_const_chunk(c, block[i]), LAMBDA r :
      IF i = Len(block) \/ ~r.ok THEN [r EXCEPT !.trace = Append(trace, i)]
      ELSE eval_chunks(r.ctx, block, i + 1, Append(trace, i)))

\* Context::eval_const_block: `block.last().unwrap()` panics on an empty block
eval_const_block(c, block) ==
    IF block = <<>> THEN [ok |-> FALSE, val |-> [k |-> "Panic"], ctx |-> c, trace |-> <<>>]
    ELSE eval_chunks(c, block, 1, <<>>)


(***************************************************************************)
(* The evaluator on its own: eval_const_block on one block, in a module    *)
(* context that defines the constant subroutine f.                         *)
(***************************************************************************)
\* the largest number of positional arguments of a call
MaxArgs == 3

\* the i-th positional argument and the keyword argument of a call
PosArg(i) == Literal(VNat(i))
KwVal == VNat(9)

\* the subroutines that f may be: (a) -> .., (a, b) -> .., (a, b := ..) -> ..
\* with a body that returns a or b, the second after a definition
Subrs ==
    {VSubr("f", ps[1], ps[2], body) :
        ps \in {<<<<"a">>, <<>>>>, <<<<"a", "b">>, <<>>>>, <<<<"a">>, <<"b">>>>},
        body \in {<<Ident("a", TRUE)>>, <<Ident("b", TRUE)>>,
                  <<Def("T", TRUE, <<Literal(VNat(7))>>), Ident("b", TRUE)>>}}

\* the calls of f
CallBlocks ==
    {<<Call("f", [i \in 1..n |-> PosArg(i)], kw)>> :
        n \in 0..MaxArgs, kw \in {<<>>, <<KwArg("b", Literal(KwVal))>>}}

\* the chunks of a block of definitions and uses
Chunks ==
    { Def("X", TRUE, <<Literal(VNat(1))>>),
      Def("Y", TRUE, <<Ident("X", TRUE)>>),
      Def("Z", FALSE, <<Literal(VNat(1))>>),
      Ident("X", TRUE),
      Ident("Y", TRUE),
      Literal(VNat(7)),
      BinOp("Plus", Ident("X", TRUE), Ident("Y", TRUE)) }

\* the largest number of chunks of a block
MaxChunks == 3

DefBlocks == UNION {[1..n -> Chunks] : n \in 1..MaxChunks}

\* the operands of an operator
OpValues ==
    { VBool(TRUE), VBool(FALSE), VInt(-1), VInt(5), VInt(6), VNat(1),
      VBuiltin(Mono("Int"), "ClassType"), VBuiltin(Mono("Str"), "ClassType"),
      VBuiltin(Mono("Eq"), "TraitType"), VType(Never), VGen(Mono("C")) }

\* the token of unary `not`: no arm of try_get_op_kind_from_token names it
PreNot == "PreNot"

\* the operands of the arithmetic operators
ArithValues == {VInt(-1), VInt(5), VInt(6), VNat(1), VBool(TRUE), VBuiltin(Mono("Int"), "ClassType")}

ArithTokens ==
    { "Plus", "Minus", "Star", "Slash", "FloorDiv", "Pow", "Mod", "DblEq", "NotEq",
      "Less", "Gre", "LessEq", "GreEq", "Shl", "Shr" }

OpBlocks ==
    {<<BinOp(op, Literal(l), Literal(r))>> :
        op \in {"OrOp", "AndOp", "BitOr", "BitAnd", "BitXor"}, l \in OpValues, r \in OpValues}
    \cup {<<BinOp(op, Literal(l), Literal(r))>> :
            op \in ArithTokens, l \in ArithValues, r \in ArithValues}
    \cup {<<UnaryOp(op, Literal(v))>> :
            op \in {PreNot, "PreBitNot", "PreMinus", "PrePlus"}, v \in OpValues}

\* the bodies of a record attribute and of a lambda: a literal, a definition
\* that is then read, a constant that is not defined, and a definition
\* followed by a constant that is not defined
ScopeBodies ==
    { <<Literal(VNat(1))>>,
      <<Def("X", TRUE, <<Literal(VNat(1))>>), Ident("X", TRUE)>>,
      <<Ident("Q", TRUE)>>,
      <<Def("X", TRUE, <<Literal(VNat(1))>>), Ident("Q", TRUE)>> }

\* the record literals {x = ..} and {x = ..; y = ..}
RecordBlocks ==
    {<<Record(<<Attr("x", b)>>)>> : b \in ScopeBodies}
    \cup {<<Record(<<Attr("x", b1), Attr("y", b2)>>)>> :
            b1 \in ScopeBodies, b2 \in ScopeBodies \cup {<<Ident("X", TRUE)>>}}

\* the lambdas a -> .. and (a, b := ..) -> ..
LambdaBlocks ==
    {<<Lambda(<<"a">>, ds, b)>> :
        ds \in {<<>>, <<DefaultParam("b", Literal(KwVal))>>,
                <<DefaultParam("b", Ident("Q", TRUE))>>},
        b \in ScopeBodies}

\* the module in which the block is evaluated
ConstModule(f) ==
    [ContextModule("m", None) EXCEPT !.consts = "f" :> f]

InitConst ==
    /\ CacheOff
    /\ fv = [v \in QuantVars |-> Generalized]
    /\ builtins_entry = None
    /\ sret = NoRet
    /\ epc = "start"
    /\ eres = None
    /\ \/ \E f \in Subrs, b \in CallBlocks : live = ConstModule(f) /\ ein = [block |-> b]
       \/ /\ live = ConstModule(CHOOSE f \in Subrs : TRUE)
          /\ ein \in {[block |-> b] :
                       b \in DefBlocks \cup OpBlocks \cup RecordBlocks \cup LambdaBlocks}

\* the call eval_const_block(block) on the live context
EvalConstBlock ==
    /\ epc = "start"
    /\ LET r == eval_const_block(live, ein.block)
       IN  /\ live' = r.ctx
           /\ eres' = Some([ok |-> r.ok, val |-> r.val, trace |-> r.trace])
    /\ epc' = "done"
    /\ UNCHANGED <<ein, fv, builtins_entry, sret, cacheVars>>

NextConst == EvalConstBlock

SpecConst == InitConst /\ [][NextConst]_vars


\* the block is one call of f; the subroutine, its parameter names in the
\* order of its signature, the name its body returns, and the arguments
IsCall == Len(ein.block) = 1 /\ ein.block[1].k = "Call"
Callee == live.consts["f"]
ParamNames == Callee.non_defaults \o Callee.defaults
LastName == Callee.block[Len(Callee.block)].name
Keywords == {ein.block[1].kw_args[j].keyword : j \in DOMAIN ein.block[1].kw_args}

(***************************************************************************)
(* C28: a call of a user-defined constant subroutine binds each supplied   *)
(* positional argument to the parameter at its position and each keyword   *)
(* argument to its keyword, and returns the value of the last expression   *)
(* of the body: every positional argument has a parameter, and a body that *)
(* ends in the name of a parameter returns the argument supplied for it.   *)
(***************************************************************************)
C28_CallBindsEveryArgument ==
    (epc = "done" /\ IsCall) =>
        /\ \A i \in DOMAIN ein.block[1].pos_args :
              /\ i <= Len(ParamNames)
              /\ (LastName = ParamNames[i] /\ LastName \notin Keywords)
                    => Unwrap(eres) = [ok |-> TRUE, val |-> ein.block[1].pos_args[i].v,
                                       trace |-> <<1>>]
        /\ LastName \in Keywords
              => Unwrap(eres) = [ok |-> TRUE, val |-> KwVal, trace |-> <<1>>]

\* what holds in the code: the binding of the positional arguments that have
\* a parameter without a default value at their position, and of the
\* keyword arguments
C28_CallBindsNonDefaults ==
    (epc = "done" /\ IsCall) =>
        /\ \A i \in DOMAIN ein.block[1].pos_args :
              (i <= Len(Callee.non_defaults) /\ LastName = Callee.non_defaults[i]
               /\ LastName \notin Keywords)
                    => Unwrap(eres) = [ok |-> TRUE, val |-> ein.block[1].pos_args[i].v,
                                       trace |-> <<1>>]
        /\ LastName \in Keywords
              => Unwrap(eres) = [ok |-> TRUE, val |-> KwVal, trace |-> <<1>>]
        /\ live.consts = ("f" :> Callee)


\* the block is one of definitions and uses
IsDefBlock == ein.block \in DefBlocks

\* a chunk that fails wherever it stands: a definition that is not constant
FailsAlways(chunk) == chunk.k = "Def" /\ ~chunk.is_const

\* the chunks before the i-th define the constant `name`
DefinedBefore(name, i) ==
    \E j \in 1..(i - 1) :
        /\ ein.block[j].k = "Def"
        /\ ein.block[j].is_const
        /\ ein.block[j].name = name

\* the value of the constants that the chunks define
ValueOfConst(name) == VNat(1)

(***************************************************************************)
(* C29: eval_const_block on a non-empty block evaluates the chunks in      *)
(* source order; a constant that an earlier chunk defined is read by every *)
(* later chunk; the block returns the value of its last chunk; a chunk     *)
(* that fails is the last one evaluated and its failure is the result.     *)
(***************************************************************************)
C29_BlockInOrderStopsAtFailure ==
    (epc = "done" /\ IsDefBlock) =>
        LET r == Unwrap(eres)
            last == Len(r.trace)
        IN  /\ last >= 1
            /\ r.trace = [i \in 1..last |-> i]
            /\ last < Len(ein.block) => ~r.ok
            /\ \A i \in 1..last : FailsAlways(ein.block[i]) => (i = last /\ ~r.ok)
            /\ \A i \in 1..last :
                  (ein.block[i].k = "Ident" /\ DefinedBefore(ein.block[i].name, i))
                      => /\ i < last \/ r.ok
                         /\ i = Len(ein.block) => r.val = ValueOfConst(ein.block[i].name)
            /\ (r.ok /\ ein.block[last].k = "Literal") => r.val = ein.block[last].v
            /\ (r.ok /\ ein.block[last].k = "Def") => r.val = VNone
            /\ \A i \in 1..last :
                  (ein.block[i].k = "Def" /\ (i < last \/ r.ok))
                      => /\ ein.block[i].name \in DOMAIN live.consts
                         /\ live.consts[ein.block[i].name] = ValueOfConst(ein.block[i].name)
            /\ live.name = "m"

\* X is defined, Y is defined from X, and the last chunk reads Y
C29_Witness ==
    /\ epc = "done"
    /\ ein.block = <<Def("X", TRUE, <<Literal(VNat(1))>>),
                     Def("Y", TRUE, <<Ident("X", TRUE)>>),
                     Ident("Y", TRUE)>>
    /\ Unwrap(eres) = [ok |-> TRUE, val |-> VNat(1), trace |-> <<1, 2, 3>>]


\* the block is one operator on literal operands
IsBinary == Len(ein.block) = 1 /\ ein.block[1].k = "BinOp" /\ ein.block \in OpBlocks
IsUnary == Len(ein.block) = 1 /\ ein.block[1].k = "UnaryOp"
Operand(i) == ein.block[1].args[i].v
OperandsAre(kind) == \A i \in DOMAIN ein.block[1].args : Operand(i).k = kind

\* `l | r` and `l & r` of the integers of OpValues
BitOrOf(l, r) ==
    CASE l = r -> l
      [] -1 \in {l, r} -> -1
      [] OTHER -> 7
BitAndOf(l, r) ==
    CASE l = r -> l
      [] l = -1 -> r
      [] r = -1 -> l
      [] OTHER -> 4

(***************************************************************************)
(* C30: on operands that are Type values `or` yields the union type, `and` *)
(* the intersection type and unary `not` the complement type; on booleans  *)
(* the three are the logical operators, and on integers `or` and `and` are *)
(* bitwise, for the expressions that eval_const_bin and eval_const_unary   *)
(* evaluate.                                                               *)
(***************************************************************************)
C30_TypeOperators ==
    (epc = "done" /\ (IsBinary \/ IsUnary)) =>
        LET r == Unwrap(eres)
            op == ein.block[1].op
        IN  /\ (IsBinary /\ op = "OrOp" /\ OperandsAre("VType"))
                  => r.ok /\ r.val.k = "VType" /\ r.val.t = union(Operand(1).t, Operand(2).t)
            /\ (IsBinary /\ op = "AndOp" /\ OperandsAre("VType"))
                  => /\ r.ok /\ r.val.k = "VType"
                     /\ r.val.t = intersection(Operand(1).t, Operand(2).t)
            /\ (IsUnary /\ op = PreNot /\ OperandsAre("VType"))
                  => r.ok /\ r.val.k = "VType" /\ r.val.t = complement(Operand(1).t)
            /\ (IsBinary /\ op = "OrOp" /\ OperandsAre("VBool"))
                  => r.ok /\ r.val = VBool(Operand(1).b \/ Operand(2).b)
            /\ (IsBinary /\ op = "AndOp" /\ OperandsAre("VBool"))
                  => r.ok /\ r.val = VBool(Operand(1).b /\ Operand(2).b)
            /\ (IsUnary /\ op = PreNot /\ OperandsAre("VBool"))
                  => r.ok /\ r.val = VBool(~Operand(1).b)
            /\ (IsBinary /\ op = "OrOp" /\ OperandsAre("VInt"))
                  => r.ok /\ r.val = VInt(BitOrOf(Operand(1).i, Operand(2).i))
            /\ (IsBinary /\ op = "AndOp" /\ OperandsAre("VInt"))
                  => r.ok /\ r.val = VInt(BitAndOf(Operand(1).i, Operand(2).i))

\* what holds in the code: the binary operators are as stated, and a unary
\* operator reaches no arm of eval_unary_val that returns a value
C30_BinaryOperatorsAndNoUnary ==
    (epc = "done" /\ (IsBinary \/ IsUnary)) =>
        LET r == Unwrap(eres)
            op == ein.block[1].op
        IN  /\ (IsBinary /\ op \in {"OrOp", "BitOr"} /\ OperandsAre("VType"))
                  => r.ok /\ r.val.k = "VType" /\ r.val.t = union(Operand(1).t, Operand(2).t)
            /\ (IsBinary /\ op \in {"AndOp", "BitAnd"} /\ OperandsAre("VType"))
                  => /\ r.ok /\ r.val.k = "VType"
                     /\ r.val.t = intersection(Operand(1).t, Operand(2).t)
            /\ (IsBinary /\ op \in {"OrOp", "BitOr"} /\ OperandsAre("VBool"))
                  => r.ok /\ r.val = VBool(Operand(1).b \/ Operand(2).b)
            /\ (IsBinary /\ op \in {"AndOp", "BitAnd"} /\ OperandsAre("VBool"))
                  => r.ok /\ r.val = VBool(Operand(1).b /\ Operand(2).b)
            /\ (IsBinary /\ op \in {"OrOp", "BitOr"} /\ OperandsAre("VInt"))
                  => r.ok /\ r.val = VInt(BitOrOf(Operand(1).i, Operand(2).i))
            /\ (IsBinary /\ op \in {"AndOp", "BitAnd"} /\ OperandsAre("VInt"))
                  => r.ok /\ r.val = VInt(BitAndOf(Operand(1).i, Operand(2).i))
            /\ (IsBinary /\ op = "BitXor" /\ Operand(1) = VInt(5) /\ Operand(2) = VInt(-1))
                  => r.ok /\ r.val = VInt(-6)
            /\ IsUnary => ~r.ok
            /\ (IsUnary /\ op = PreNot) => r.val = EvalError("not_const_expr")

\* ---------------------------------------------------------------------
\* C31

\* the token of the evaluated operator names an op-kind of the table
InTable == IsSome(try_get_op_kind_from_token(ein.block[1].op))

\* C31: an operator of the table applied to integers, which support every
\* arithmetic, comparison, bitwise and shift operator and the unary sign and
\* inversion operators, is never answered with the unreachable error
C31_UnreachableOnlyForUnsupportedOperands ==
    (epc = "done" /\ (IsBinary \/ IsUnary) /\ InTable /\ OperandsAre("VInt"))
        => Unwrap(eres).val # EvalError("unreachable")

\* what holds in the code: on integers the kinds with an arm of their own
\* give a value, while Mod, Pow, Shl, Shr reach the arm for the other kinds
\* and Pos, Neg, Invert their own arms, all of which return the unreachable
\* error
C31_UnhandledKindsAreUnreachable ==
    (epc = "done" /\ (IsBinary \/ IsUnary) /\ InTable /\ OperandsAre("VInt"))
        => LET r == Unwrap(eres)
               op == ein.block[1].op
           IN  IF IsUnary \/ op \in {"Mod", "Pow", "Shl", "Shr"}
               THEN ~r.ok /\ r.val = EvalError("unreachable")
               ELSE r.ok /\ r.val.k \in {"VInt", "VBool", "VFloat"}

(***************************************************************************)
(* get_tp_t: the type of a type parameter.                                 *)
(***************************************************************************)
\* v_enum(set![v]): the type whose only value is v
v_enum(v) == [k |-> "Enum", v |-> v]

\* Context::meta_type
meta_type(t) == Mono("Type")

\* Context::subtype_of, for the right-hand sides Bool and Type
subtype_of(t, sup) ==
    CASE t = sup -> TRUE
      [] t.k = "Enum" /\ sup = Mono("Bool") -> t.v.k = "VBool"
      [] t.k = "Enum" /\ sup = Mono("Type") -> t.v.k = "VType"
      [] OTHER -> FALSE

\* Context::get_tp_t: the arms for a value, a linked variable, a type and a
\* binary operation; the parameter is first evaluated, and kept as it is
\* when its evaluation fails
RECURSIVE get_tp_t(_, _)
get_tp_t(f, tp) ==
    Let(IF eval_tp(f, tp) = TpErr THEN tp ELSE eval_tp(f, tp), LAMBDA p :
    CASE p.k = "TpValue" -> Ok(v_enum(p.v), f)
      [] p.k = "TpFreeVar" /\ is_linked(f, p.id) -> get_tp_t(f, crack(f, p.id))
      [] p.k = "TpType" -> Ok(meta_type(p.t), f)
      [] p.k = "TpBinOp" /\ p.op \in {"Or", "And"} ->
           Let(get_tp_t(f, p.lhs), LAMBDA lhs :
             IF ~lhs.ok THEN lhs
             ELSE Let(get_tp_t(f, p.rhs), LAMBDA rhs :
               IF ~rhs.ok THEN rhs
               ELSE IF subtype_of(lhs.val, Mono("Bool")) /\ subtype_of(rhs.val, Mono("Bool"))
               THEN Ok(Mono("Bool"), f)
               ELSE IF subtype_of(lhs.val, Mono("Type")) /\ subtype_of(rhs.val, Mono("Type"))
               THEN Ok(Mono("Type"), f)
               ELSE Err("feature", f)))
      [] OTHER -> Err("feature", f))

\* the type parameters asked for their type
TpAtoms ==
    { TpValue(VBool(TRUE)), TpValue(VBool(FALSE)), TpValue(VInt(5)),
      TpValue(VBuiltin(Mono("Int"), "ClassType")), TpType(Mono("Int")), TpFreeVar("T") }

TpNested ==
    TpAtoms \cup { TpBinOp("Or", TpValue(VBool(TRUE)), TpValue(VBool(FALSE))),
                   TpBinOp("And", TpValue(VBool(TRUE)), TpValue(VInt(5))) }

TpSubjects ==
    TpAtoms \cup {TpBinOp(op, l, r) : op \in {"Or", "And", "Add", "Mod"},
                                      l \in TpNested, r \in TpNested}

InitTpT ==
    /\ CacheOff
    /\ ScopeOff
    /\ ein \in {[p |-> p] : p \in TpSubjects}
    /\ fv \in {[v \in QuantVars |-> IF v = "T" THEN Linked(TpValue(l)) ELSE Generalized] :
                 l \in {VBool(TRUE), VInt(5)}}
    /\ epc = "start"
    /\ eres = None

GetTpT ==
    /\ epc = "start"
    /\ LET r == get_tp_t(fv, ein.p)
       IN  eres' = Some([ok |-> r.ok, val |-> r.val])
    /\ epc' = "typed"
    /\ UNCHANGED <<fv, ein, cacheVars, scopeVars>>

SpecTpT == InitTpT /\ [][GetTpT]_vars

\* ---------------------------------------------------------------------
\* C32

\* the evaluation of the parameter, the first sub-step of get_tp_t, fails
EvalTpFails == eval_tp(fv, ein.p) = TpErr

\* C32: when the evaluation performed by get_tp_t fails, the result of
\* get_tp_t is a failure
C32_FailedSubStepFailsTheOperation ==
    (epc = "typed" /\ EvalTpFails) => ~Unwrap(eres).ok

\* what holds in the code: a parameter whose evaluation fails is typed as
\* it stands, which succeeds for `or` / `and` of two parameters that are
\* both of type Bool or both of type Type
C32_UnevaluatedParameterIsTyped ==
    (epc = "typed" /\ EvalTpFails /\ ein.p.k = "TpBinOp") =>
        LET r == Unwrap(eres)
            l == get_tp_t(fv, ein.p.lhs)
            rr == get_tp_t(fv, ein.p.rhs)
        IN  r.ok <=> /\ ein.p.op \in {"Or", "And"}
                     /\ l.ok /\ rr.ok
                     /\ \E b \in {Mono("Bool"), Mono("Type")} :
                           subtype_of(l.val, b) /\ subtype_of(rr.val, b)

\* ---------------------------------------------------------------------
\* C33

\* C33: initialize() never panics, whoever holds the builtins context it
\* removed from the cache
C33_InitializeNeverPanics == \A s \in Sessions : pc[s] # "panicked"

\* what holds in the code: initialize() panics exactly when, at its last
\* step, someone else still owns the context it removed from the cache; the
\* cache is then left empty of the builtins entry it had
C33_PanicsWhileContextIsHeld ==
    [][\A s \in Sessions :
        InitializeRegister(s) =>
            /\ (pc'[s] = "panicked") <=> ~try_unwrap_ok(s)
            /\ (pc'[s] = "panicked") => cache' = cache]_vars

\* ---------------------------------------------------------------------
\* C34

\* the root of the live scope chain, on which dir() asks for the builtins
RootOfLive == Chain(live)[Len(Chain(live))]

\* the root has no builtins to add: its path is the builtins sentinel, or it
\* has no module cache
RootWithoutBuiltins == path(RootOfLive) = "<builtins>" \/ ~IsSome(RootOfLive.mod_cache)

\* C34: dir() completes for every context; for a root whose path is the
\* builtins sentinel or that has no module cache it returns the locals of
\* the chain and nothing else
C34_DirNeverPanics ==
    sret.op = "dir" =>
        /\ sret.out.k = "Ok"
        /\ RootWithoutBuiltins =>
              {sret.out.vars[i] : i \in DOMAIN sret.out.vars}
                 = UNION {{[name |-> x, info |-> Chain(live)[i].locals[x]] :
                             x \in DOMAIN Chain(live)[i].locals} : i \in DOMAIN Chain(live)}

\* what holds in the code: dir() unwraps the builtins context of the root,
\* and panics for every root that has none
C34_DirPanicsWithoutBuiltins ==
    (sret.op = "dir" /\ RootWithoutBuiltins) => sret.out.k = "Panic"

\* ---------------------------------------------------------------------
\* C35

\* a chunk of the block is a definition
HasDef == IsDefBlock /\ \E i \in DOMAIN ein.block : ein.block[i].k = "Def"

C36_IdsUniqueAndBounded ==
    \A p \in DOMAIN cache :
        /\ cache[p].id <= last_id
        /\ \A q \in DOMAIN cache : cache[p].id = cache[q].id => p = q

\* two entries are cached, one of them registered again over itself: the
\* ids differ, and the id in between is carried by no entry
C36_Witness ==
    /\ ret.op = "register"
    /\ DOMAIN cache = {BUILTINS, "a"}
    /\ cache["a"].id = 1
    /\ cache[BUILTINS].id = MaxId
    /\ last_id = MaxId

\* ---------------------------------------------------------------------
\* C37

\* C37: every register of a session, whatever the other session does before
\* and after it, takes the next id: last_id grows by exactly one, the new
\* entry carries the new last_id, it replaces what its path held and every
\* other entry stays; so two registers give two distinct ids, last_id grows
\* by two, and both entries are stored unless the second replaces the first
C37_NoRegisterIsLost ==
    [][\A s \in Sessions, p \in RawPaths, m \in Modules :
        SharedRegister(s, p, m.hir, m.ctx) =>
            /\ last_id' = last_id + 1
            /\ DOMAIN cache' = DOMAIN cache \cup {Normalize(p)}
            /\ cache'[Normalize(p)].id = last_id'
            /\ \A q \in DOMAIN cache \ {Normalize(p)} : cache'[q] = cache[q]]_vars

\* two registers at two paths have returned: both entries are stored, with
\* the ids 1 and 2
C37_Witness ==
    /\ ret.op = "register"
    /\ last_id = 2
    /\ DOMAIN cache = {BUILTINS, "a"}
    /\ {cache[BUILTINS].id, cache["a"].id} = {1, 2}

\* ---------------------------------------------------------------------
\* C38

\* C38: rename_path(old, new) onto a path that holds another entry replaces
\* it: new maps to the entry that was at old, old is absent, the id of the
\* entry that was at new is carried by no entry, and the cache has one entry
\* less; rename_path(p, p) leaves the cache as it is
C38_RenameReplacesEntryAtNew ==
    [][\A s \in Sessions, old \in RawPaths, new \in RawPaths :
        SharedRenamePath(s, old, new) =>
            /\ (old \in DOMAIN cache /\ Normalize(new) \in DOMAIN cache \ {old}) =>
                  /\ get(MC', Normalize(new)) = Some(cache[old])
                  /\ get(MC', old) = None
                  /\ find_by_id(MC', cache[Normalize(new)].id) = {}
                  /\ Cardinality(DOMAIN cache') = Cardinality(DOMAIN cache) - 1
                  /\ last_id' = last_id
            /\ (Normalize(new) = old) => (cache' = cache /\ last_id' = last_id)]_vars

\* the entry registered first has been moved onto the path of the entry
\* registered second: one entry is left, at "a", with the id 1, and the
\* context of the replaced entry has been dropped
C38_Witness ==
    /\ ret.op = "rename_path"
    /\ DOMAIN cache = {"a"}
    /\ cache["a"].id = 1
    /\ cache["a"].module = 1
    /\ last_id = 2
    /\ Len(arcs) = 2
    /\ ~arcs[2].alive

\* ---------------------------------------------------------------------
\* C39

\* the block is one call of f, one record literal or one lambda
IsScoped == Len(ein.block) = 1 /\ ein.block[1].k \in {"Call", "Record", "Lambda"}

\* C39: evaluating a call of a user-defined subroutine, a record literal or
\* a lambda leaves the calling context as it was (its consts, decls and
\* locals among the rest), whether the evaluation succeeds or fails
C39_CallerUnchanged ==
    [][(EvalConstBlock /\ IsScoped) => live' = live]_vars

\* a record literal whose first body defines X and whose second reads it
\* has been evaluated: X was visible to the second body and is no constant
\* of the module
C39_Witness ==
    /\ epc = "done"
    /\ ein.block = <<Record(<<Attr("x", <<Def("X", TRUE, <<Literal(VNat(1))>>),
                                           Ident("X", TRUE)>>),
                               Attr("y", <<Ident("X", TRUE)>>)>>)>>
    /\ Unwrap(eres).ok
    /\ Unwrap(eres).val = VRecord(Insert(Insert(EmptyDict, "x", VNat(1)), "y", VNat(1)))
    /\ DOMAIN live.consts = {"f"}

(***************************************************************************)
(* overwrite_typarams: the substitution on a quantified type whose         *)
(* variables an earlier substitute_typarams has linked.                    *)
(***************************************************************************)
\* Type::has_undoable_linked_var
RECURSIVE has_undoable_linked_var(_, _)
has_undoable_linked_var(f, t) ==
    CASE t.k = "FreeVar" -> is_undoable_linked(f, t.id)
      [] t.k = "Poly" ->
           \E i \in DOMAIN t.params :
              \/ t.params[i].k = "TpFreeVar" /\ is_undoable_linked(f, t.params[i].id)
              \/ t.params[i].k = "TpType" /\ has_undoable_linked_var(f, t.params[i].t)
              \/ t.params[i].k = "TpValue" /\ t.params[i].v.k = "VType"
                    /\ has_undoable_linked_var(f, t.params[i].v.t)
      [] OTHER -> FALSE

RECURSIVE overwrite_typarams(_, _, _)
RECURSIVE overwrite_typaram(_, _, _)
RECURSIVE overwrite_type(_, _, _)
RECURSIVE overwrite_zip(_, _, _, _)

\* the loop of overwrite_typarams: `self.overwrite_typaram(qtp, stp)?`
overwrite_zip(f, qtps, stps, i) ==
    IF i > Len(qtps) THEN Ok(None, f)
    ELSE Let(overwrite_typaram(f, qtps[i], stps[i]),
             LAMBDA r : IF r.ok THEN overwrite_zip(r.store, qtps, stps, i + 1) ELSE r)

\* Context::overwrite_typarams
overwrite_typarams(f, qt, st) ==
    IF qual_name(f, qt) # qual_name(f, st) \/ Len(typarams(f, qt)) # Len(typarams(f, st))
    THEN Ok(None, f)
    ELSE overwrite_zip(f, typarams(f, qt), typarams(f, st), 1)

\* Context::overwrite_typaram
overwrite_typaram(f, qtp, stp) ==
    CASE qtp.k = "TpFreeVar" /\ is_undoable_linked(f, qtp.id) ->
           Let(IF ~is_unbound_var(f, stp) \/ ~is_generalized(f, stp)
               THEN undoable_link(f, qtp.id, stp)
               ELSE f,
               LAMBDA f1 : Ok(None, sub_unify_tp(f1, stp, qtp)))
      [] qtp.k = "TpType" -> overwrite_type(f, stp, qtp.t)
      [] qtp.k = "TpValue" /\ qtp.v.k = "VType" -> overwrite_type(f, stp, qtp.v.t)
      [] OTHER -> Ok(None, f)

\* Context::overwrite_type; the link of a type that is no variable binds
\* nothing
overwrite_type(f, stp, qt) ==
    Let(convert_tp_into_type(f, stp), LAMBDA c :
      IF ~c.ok THEN Err("not_a_type", f)
      ELSE
        Let(~is_unbound_var(f, c.val) \/ ~is_generalized(f, c.val), LAMBDA bound :
        Let(IF has_undoable_linked_var(f, qt) /\ bound /\ is_free_var(qt)
            THEN undoable_link(f, qt.id, c.val)
            ELSE f, LAMBDA f1 :
        Let(IF bound THEN overwrite_typarams(f1, qt, c.val) ELSE Ok(None, f1), LAMBDA r :
          IF ~r.ok THEN r ELSE Ok(None, sub_unify(r.store, c.val, qt))))))

\* the concrete types of the first and of the second substitution: those of
\* ConcreteTypes, and two whose parameter is the unbound generalized K
UnboundParams == {TpFreeVar("K"), TpType(FreeVar("K"))}

FirstTypes ==
    ConcreteTypes \cup {Poly("F", <<p, q>>) : p \in UnboundParams, q \in ConcreteParams}

SecondTypes ==
    { Poly("F", <<TpValue(VNat(2)), TpType(Mono("Str"))>>),
      Poly("F", <<TpType(Mono("Str")), TpValue(VNat(2))>>),
      Poly("F", <<TpType(Mono("Str")), TpType(FreeVar("K"))>>) }

InitOverwrite ==
    /\ CacheOff
    /\ ScopeOff
    /\ fv = [v \in QuantVars \cup {"K"} |-> Generalized]
    /\ epc = "start"
    /\ ein \in {[q |-> q, c |-> c, c2 |-> c2] :
                  q \in QuantTypes, c \in FirstTypes, c2 \in SecondTypes}
    /\ eres = None

\* the call overwrite_typarams(q, c2), before or after substitute_typarams
Overwrite ==
    /\ epc \in {"start", "substituted"}
    /\ LET r == overwrite_typarams(fv, ein.q, ein.c2)
       IN  /\ fv' = r.store
           /\ eres' = Some(r.ok)
    /\ epc' = "overwritten"
    /\ UNCHANGED <<ein, cacheVars, scopeVars>>

\* the call undo_substitute_typarams(q) after an overwrite, and once more
UndoOverwrite ==
    /\ epc \in {"overwritten", "undone once"}
    /\ fv' = undo_substitute_typarams(fv, ein.q)
    /\ epc' = IF epc = "overwritten" THEN "undone once" ELSE "undone"
    /\ UNCHANGED <<ein, eres, cacheVars, scopeVars>>

NextOverwrite == Substitute \/ Overwrite \/ UndoSubstitute \/ UndoOverwrite

SpecOverwrite == InitOverwrite /\ [][NextOverwrite]_vars

\* ---------------------------------------------------------------------
\* C40

\* the store after two more calls of undo_substitute_typarams(q)
UndoneTwice == undo_substitute_typarams(undo_substitute_typarams(fv, ein.q), ein.q)

\* t is an unbound generalized variable
UnboundGeneralized(t) == is_unbound_var(fv, t) /\ is_generalized(fv, t)

\* C40: no variable is ever linked permanently, and every link that
\* substitute_typarams and overwrite_typarams have made on a variable of q
\* is reversed by undo_substitute_typarams(q), one call for each of the two
C40_EveryLinkIsReversible ==
    /\ \A v \in DOMAIN fv : fv[v].k # "Linked"
    /\ epc \in {"substituted", "overwritten"} =>
          \A v \in VarsOf(ein.q) : UndoneTwice[v] = Generalized

\* the state `old` of a variable is kept under the undoable links of `new`
RECURSIVE KeptUnder(_, _)
KeptUnder(new, old) ==
    new = old \/ (new.k = "UndoableLinked" /\ KeptUnder(new.previous, old))

\* what holds in the code: substitute_typarams links a variable only when
\* it is generalized and unbound and the concrete side is no unbound
\* generalized variable, overwrite_typarams re-links only a variable that
\* is undoably linked, and both links are undoable and keep the state before
C40_LinksOnlyAsStated ==
    [][/\ Substitute =>
            \A v \in DOMAIN fv : fv'[v] # fv[v] =>
                /\ fv[v] = Generalized
                /\ fv'[v].k = "UndoableLinked" /\ KeptUnder(fv'[v], fv[v])
                /\ ~UnboundGeneralized(fv'[v].t)
       /\ Overwrite =>
            \A v \in DOMAIN fv : fv'[v] # fv[v] =>
                /\ fv[v].k = "UndoableLinked"
                /\ fv'[v].k = "UndoableLinked" /\ KeptUnder(fv'[v], fv[v])
                /\ ~UnboundGeneralized(fv'[v].t)]_vars

\* what holds in the code: the links are reversed by the undo for every
\* variable of q but one that is wrapped as Value(Type)
C40_ReversibleUnlessWrapped ==
    epc \in {"substituted", "overwritten"} =>
        \A v \in VarsOf(ein.q) :
            (\A i \in DOMAIN ein.q.params : ein.q.params[i] # TpValue(VType(FreeVar(v))))
                => UndoneTwice[v] = Generalized

====
